---- MODULE Spec2Model ----
(***************************************************************************)
(* Model of OpenGameBoost's process suspension engine                      *)
(* (src/services/suspend_service.py) and of the application worker that    *)
(* drives it (src/main.py).                                                *)
(*                                                                         *)
(* The service object is the state: its public attributes, the tracked     *)
(* set _suspended_pids and the shell slot _explorer_pid.  The operating    *)
(* system is the environment: a table of live processes, and for every     *)
(* OpenProcess / NtSuspendProcess / NtResumeProcess call an outcome        *)
(* chosen by the action that makes the call.                               *)
(***************************************************************************)
EXTENDS Integers, Sequences, FiniteSets, TLC

\* ------------------------------------------------------------------------
\* Bounds
\* ------------------------------------------------------------------------
\* Number of processes, other than the calling process, in the enumeration.
MaxPid == 2

Pids == 1..MaxPid
\* The process that runs the service (what os.getpid() would return).
SelfPid == MaxPid + 1
AllPids == Pids \cup {SelfPid}

\* Python's None for the Optional[int] shell slot.  The code tests the slot
\* by truthiness (`if self._explorer_pid:`), which None and 0 both fail.
None == 0

\* ------------------------------------------------------------------------
\* Static catalogs (a representative part of each list, original spelling)
\* ------------------------------------------------------------------------
BROWSER_PROCESSES == {"chrome.exe", "firefox.exe", "msedge.exe"}
LAUNCHER_PROCESSES == {"steam.exe", "EpicGamesLauncher.exe", "Battle.net.exe"}
BACKGROUND_PROCESSES == {"Discord.exe", "Spotify.exe", "OneDrive.exe"}
EXPLORER_NAME == "explorer.exe"

\* str.lower() on the executable names that occur in the model.
Lower(n) ==
    CASE n = "Discord.exe" -> "discord.exe"
      [] n = "DISCORD.EXE" -> "discord.exe"
      [] n = "Spotify.exe" -> "spotify.exe"
      [] n = "OneDrive.exe" -> "onedrive.exe"
      [] n = "EpicGamesLauncher.exe" -> "epicgameslauncher.exe"
      [] n = "Battle.net.exe" -> "battle.net.exe"
      [] n = "Explorer.EXE" -> "explorer.exe"
      [] n = "Chrome.exe" -> "chrome.exe"
      [] n = "OpenGameBoost.exe" -> "opengameboost.exe"
      [] n = "COD.EXE" -> "cod.exe"
      [] n = "ModernWarfare.exe" -> "modernwarfare.exe"
      [] n = "BlackOpsColdWar.exe" -> "blackopscoldwar.exe"
      [] n = "R5Apex.exe" -> "r5apex.exe"
      [] OTHER -> n

\* ------------------------------------------------------------------------
\* Environment: the process table
\* ------------------------------------------------------------------------
\* Executable names of the other processes, by pid (cyclic beyond its end).
\* The empty name is a process whose name psutil could not read.
ProcTable ==
    << "explorer.exe", "Discord.exe", "DISCORD.EXE", "chrome.exe",
       "steam.exe", "Explorer.EXE", "", "notepad.exe" >>

\* Names the calling process may run under: the packaged name, and a name
\* that collides with an entry of BACKGROUND_PROCESSES.
SelfNames == {"OpenGameBoost.exe", "discord.exe"}

\* Outcomes of one suspend / resume call on the OS side: the NT call returns
\* STATUS_SUCCESS, OpenProcess gives no handle (it returns NULL, or it
\* raises), the NT call returns another status, or the NT call raises with
\* the handle open.  For the calling process itself NtSuspendProcess returns
\* only after another process has resumed it; "ok" is that return.
Outcomes == {"ok", "open_failed", "status_failed", "exception"}
FailKinds == Outcomes \ {"ok"}

\* Outcome assignments for a batch of calls on the pids of S: any subset
\* succeeds, the others fail in the same way.
OutcomeChoices(S) ==
    { [p \in S |-> IF p \in ok THEN "ok" ELSE k] : ok \in SUBSET S, k \in FailKinds }

\* ------------------------------------------------------------------------
\* State
\* ------------------------------------------------------------------------
VARIABLES
    enabled,                  \* SuspendService.enabled
    suspend_explorer,         \* instance attribute set in __init__
    suspend_browsers,         \* instance attribute set in __init__
    suspend_launchers,        \* instance attribute set in __init__
    suspend_background,       \* instance attribute set in __init__
    _suspended_pids,          \* SuspendService._suspended_pids
    _explorer_pid,            \* SuspendService._explorer_pid
    _psutil_available,        \* import psutil succeeded
    _ctypes_available,        \* ctypes and the NT entry points are usable
    self_name,                \* executable name of the calling process
    proc_names,               \* executable name of each other process
    call,                     \* record of the last call made on the service
    det_enabled,              \* GameDetectorService.enabled
    auto_optimize,            \* GameDetectorService.auto_optimize
    detected_games,           \* GameDetectorService.detected_games
    on_game_detected,         \* a callback is registered (not None)
    on_game_closed,           \* a callback is registered (not None)
    _running,                 \* GameDetectorService._running
    _thread,                  \* GameDetectorService._thread
    threads,                  \* the detection loop threads created by start()
    pending,                  \* handler calls queued by root.after(0, ...)
    game_mode_active,         \* OpenGameBoostApp.game_mode_active
    script,                   \* progress of the polls along ScriptedSets
    last,                     \* record of a stop() that has just returned
    game_mode_btn,            \* state of the Game Mode button of the window
    workers,                  \* Game-Mode worker threads that have not finished
    notified,                 \* per game, the kind of the last callback made for it
    power_enabled,            \* PowerService.enabled
    is_desktop,               \* PowerService.is_desktop
    original_plan,            \* PowerService.original_plan
    active_plan,              \* the active power scheme of the machine
    baseline,                 \* the plan active before the first optimizing call
    power_call,               \* record of the last call made on the power service
    DEFAULT_CONFIG,           \* the module-level dict of src/config.py
    config,                   \* Config.config
    config_file,              \* contents of the file at Config.config_path
    config_call               \* record of the last call made on the Config

\* The state of the suspend service.
svc == << enabled, suspend_explorer, suspend_browsers, suspend_launchers,
          suspend_background, _suspended_pids, _explorer_pid, call >>

\* The state of the game detector and of the application around it.
\* The Game Mode button and the workers it starts.
mode == << game_mode_btn, workers >>

app == << det_enabled, auto_optimize, detected_games, on_game_detected,
          on_game_closed, _running, _thread, threads, pending,
          game_mode_active, script, last, mode, notified >>

\* The state of the detector alone.
det == << det_enabled, auto_optimize, detected_games, on_game_detected,
          on_game_closed, _running, _thread, threads, script, last,
          notified >>

\* The state of the power service, with the machine's active plan.
pwr == << power_enabled, is_desktop, original_plan, active_plan, baseline,
          power_call >>

\* The state of the configuration.
cfg == << DEFAULT_CONFIG, config, config_file, config_call >>

\* What the suspend service, the detector and the window leave alone.
others == << pwr, cfg >>

vars == << enabled, suspend_explorer, suspend_browsers, suspend_launchers,
           suspend_background, _suspended_pids, _explorer_pid,
           _psutil_available, _ctypes_available, self_name, proc_names,
           call, app, others >>

attrs == << enabled, suspend_explorer, suspend_browsers, suspend_launchers,
            suspend_background >>
env == << _psutil_available, _ctypes_available, self_name, proc_names >>

\* The processes of the machine: the pids take the names of ProcTable in
\* turn; or two desktop shell processes run (two sessions), under the two
\* spellings of the name.
TableProcs == [ p \in Pids |-> ProcTable[((p - 1) % Len(ProcTable)) + 1] ]
TwoShells == [ p \in Pids |-> IF p = 1 THEN "explorer.exe"
                              ELSE IF p = 2 THEN "Explorer.EXE"
                              ELSE TableProcs[p] ]

NameOf(p) ==
    IF p = SelfPid THEN self_name
    ELSE proc_names[p]

\* psutil.process_iter yields the processes in ascending pid order.
RECURSIVE SeqOfSet(_)
SeqOfSet(S) ==
    IF S = {} THEN << >>
    ELSE LET m == CHOOSE x \in S : \A y \in S : x <= y
         IN << m >> \o SeqOfSet(S \ {m})

ToSet(s) == { s[i] : i \in 1..Len(s) }

\* The session is Idle: nothing tracked, shell slot unset.
Idle == _suspended_pids = {} /\ _explorer_pid = None

\* ------------------------------------------------------------------------
\* The record of a call
\* ------------------------------------------------------------------------
NoCall ==
    [ op |-> "none", status |-> "none",
      explorer_suspended |-> FALSE, browsers_suspended |-> 0,
      launchers_suspended |-> 0, background_suspended |-> 0,
      total_suspended |-> 0, has_total |-> FALSE,
      resumed |-> 0, failed |-> 0,
      opened |-> 0, closed |-> 0,
      suspendLog |-> << >>, resumeLog |-> << >>,
      resolved |-> {}, categories |-> {}, supplied |-> {},
      shell_seen |-> {},
      enabled0 |-> TRUE,
      batch |-> [ pids |-> << >>, log |-> << >>, suspended |-> 0, failed |-> 0,
                  enum_failed |-> FALSE ],
      lookup |-> [ names |-> {}, seen |-> {}, gone |-> {}, pids |-> << >> ],
      tracked0 |-> {}, explorer0 |-> None,
      prev |-> "none" ]

\* A new record for operation o.  prev names the previous call, and tells an
\* activation that started with the session Idle from the other calls;
\* enabled0 is the enabled flag a deactivate_game_mode() was called under.
StartCall(o) ==
    [ NoCall EXCEPT
        !.op = o,
        !.enabled0 = (IF o = "deactivate" THEN enabled ELSE TRUE),
        !.tracked0 = _suspended_pids,
        !.explorer0 = _explorer_pid,
        !.prev = IF call.op \in {"activate", "run_activation"}
                    /\ call.tracked0 = {} /\ call.explorer0 = None
                 THEN "activate_from_idle"
                 ELSE "other" ]

\* ------------------------------------------------------------------------
\* Suspend / resume primitive
\* ------------------------------------------------------------------------
\* _suspend_process that adds the pid to the tracked set before it tests
\* the status NtSuspendProcess returned.
_suspend_process_adds_early(pid, o, S) ==
    IF ~_ctypes_available
    THEN [ret |-> FALSE, pids |-> S, opened |-> 0, closed |-> 0]
    ELSE IF o = "open_failed"
    THEN [ret |-> FALSE, pids |-> S, opened |-> 0, closed |-> 0]
    ELSE IF o = "exception"
    THEN [ret |-> FALSE, pids |-> S, opened |-> 1, closed |-> 1]
    ELSE IF o = "ok"
    THEN [ret |-> TRUE, pids |-> S \cup {pid}, opened |-> 1, closed |-> 1]
    ELSE [ret |-> FALSE, pids |-> S \cup {pid}, opened |-> 1, closed |-> 1]

\* _suspend_process(pid) with OS outcome o on tracked set S: the value
\* returned, the tracked set afterwards, and the numbers of OpenProcess
\* calls that gave a handle and of CloseHandle calls.  The `finally` clause
\* closes the handle on every path that has one.
_suspend_process(pid, o, S) ==
    IF ~_ctypes_available
    THEN [ret |-> FALSE, pids |-> S, opened |-> 0, closed |-> 0]
    ELSE IF o = "open_failed"
    THEN [ret |-> FALSE, pids |-> S, opened |-> 0, closed |-> 0]
    ELSE IF o = "exception"
    THEN [ret |-> FALSE, pids |-> S, opened |-> 1, closed |-> 1]
    ELSE IF o = "ok"
    THEN [ret |-> TRUE, pids |-> S \cup {pid}, opened |-> 1, closed |-> 1]
    ELSE [ret |-> FALSE, pids |-> S, opened |-> 1, closed |-> 1]

\* _resume_process that reports a successful resume without discarding the
\* pid from the tracked set.
_resume_process_keeps(pid, o, S) ==
    IF ~_ctypes_available
    THEN [ret |-> FALSE, pids |-> S, opened |-> 0, closed |-> 0]
    ELSE IF o = "open_failed"
    THEN [ret |-> FALSE, pids |-> S, opened |-> 0, closed |-> 0]
    ELSE IF o = "ok"
    THEN [ret |-> TRUE, pids |-> S, opened |-> 1, closed |-> 1]
    ELSE [ret |-> FALSE, pids |-> S, opened |-> 1, closed |-> 1]

\* _resume_process that empties the tracked set on a successful resume.
_resume_process_clears(pid, o, S) ==
    IF ~_ctypes_available
    THEN [ret |-> FALSE, pids |-> S, opened |-> 0, closed |-> 0]
    ELSE IF o = "open_failed"
    THEN [ret |-> FALSE, pids |-> S, opened |-> 0, closed |-> 0]
    ELSE IF o = "ok"
    THEN [ret |-> TRUE, pids |-> {}, opened |-> 1, closed |-> 1]
    ELSE [ret |-> FALSE, pids |-> S, opened |-> 1, closed |-> 1]

\* _resume_process that closes the handle after the NT call has returned,
\* without a `finally` clause.
_resume_process_leaks(pid, o, S) ==
    IF ~_ctypes_available
    THEN [ret |-> FALSE, pids |-> S, opened |-> 0, closed |-> 0]
    ELSE IF o = "open_failed"
    THEN [ret |-> FALSE, pids |-> S, opened |-> 0, closed |-> 0]
    ELSE IF o = "exception"
    THEN [ret |-> FALSE, pids |-> S, opened |-> 1, closed |-> 0]
    ELSE IF o = "ok"
    THEN [ret |-> TRUE, pids |-> S \ {pid}, opened |-> 1, closed |-> 1]
    ELSE [ret |-> FALSE, pids |-> S, opened |-> 1, closed |-> 1]

\* _resume_process(pid) with OS outcome o on tracked set S.
_resume_process(pid, o, S) ==
    IF ~_ctypes_available
    THEN [ret |-> FALSE, pids |-> S, opened |-> 0, closed |-> 0]
    ELSE IF o = "open_failed"
    THEN [ret |-> FALSE, pids |-> S, opened |-> 0, closed |-> 0]
    ELSE IF o = "exception"
    THEN [ret |-> FALSE, pids |-> S, opened |-> 1, closed |-> 1]
    ELSE IF o = "ok"
    THEN [ret |-> TRUE, pids |-> S \ {pid}, opened |-> 1, closed |-> 1]
    ELSE [ret |-> FALSE, pids |-> S, opened |-> 1, closed |-> 1]

\* ------------------------------------------------------------------------
\* Process directory
\* ------------------------------------------------------------------------
\* The loop of lines 173-178 over the processes procs that process_iter
\* yields, in order.  Reading a process of `gone` raises NoSuchProcess or
\* AccessDenied.  With `guarded` the inner except clause catches it and
\* the loop continues; without it the exception would reach the
\* `except Exception` of line 179 and end the loop.
RECURSIVE MatchLoop(_, _, _, _, _)
MatchLoop(procs, names_lower, gone, guarded, pids) ==
    IF procs = << >> THEN pids
    ELSE IF Head(procs) \in gone
    THEN IF guarded
         THEN MatchLoop(Tail(procs), names_lower, gone, guarded, pids)
         ELSE pids
    ELSE IF NameOf(Head(procs)) # "" /\ Lower(NameOf(Head(procs))) \in names_lower
    THEN MatchLoop(Tail(procs), names_lower, gone, guarded,
                   Append(pids, Head(procs)))
    ELSE MatchLoop(Tail(procs), names_lower, gone, guarded, pids)

\* _get_pids_by_name without the inner try / except.
_get_pids_by_name_unguarded(process_names, seen, gone) ==
    IF ~_psutil_available THEN << >>
    ELSE MatchLoop(SeqOfSet(seen), { Lower(n) : n \in process_names },
                   gone, FALSE, << >>)

\* _get_pids_by_name(process_names) when the enumeration yields the
\* processes of `seen` (all of them, or those before it raised), of which
\* those of `gone` have vanished or are inaccessible when they are read.
_get_pids_by_name(process_names, seen, gone) ==
    IF ~_psutil_available THEN << >>
    ELSE MatchLoop(SeqOfSet(seen), { Lower(n) : n \in process_names },
                   gone, TRUE, << >>)

\* What an enumeration can yield: every process, or the first k processes in
\* pid order when process_iter raises after them (here: none, or all but the
\* last).
Enumerations == { { p \in AllPids : p <= k } : k \in {0, MaxPid, SelfPid} }

\* process_iter has raised in an enumeration that yielded `seen`: the
\* `except Exception` of line 179 was taken.
EnumerationFailed(seen) == _psutil_available /\ seen # AllPids

\* ------------------------------------------------------------------------
\* Category batches.  r is the running state of a call:
\*   [pids, explorer, call, raised]
\* ------------------------------------------------------------------------
\* The loop `for pid in pids: if self._suspend_process(pid): ...`.
RECURSIVE SuspendLoop(_, _, _)
SuspendLoop(pids, oc, acc) ==
    IF pids = << >> THEN acc
    ELSE LET pid == Head(pids)
             res == _suspend_process(pid, oc[pid], acc.pids)
         IN SuspendLoop(Tail(pids), oc,
               [ pids |-> res.pids,
                 suspended |-> acc.suspended + (IF res.ret THEN 1 ELSE 0),
                 failed |-> acc.failed + (IF res.ret THEN 0 ELSE 1),
                 opened |-> acc.opened + res.opened,
                 closed |-> acc.closed + res.closed,
                 log |-> Append(acc.log, pid) ])

\* The loop with a `break` in its else branch: the first failed suspend
\* ends the batch.
RECURSIVE SuspendLoop_aborts(_, _, _)
SuspendLoop_aborts(pids, oc, acc) ==
    IF pids = << >> THEN acc
    ELSE LET pid == Head(pids)
             res == _suspend_process(pid, oc[pid], acc.pids)
             nxt == [ pids |-> res.pids,
                      suspended |-> acc.suspended + (IF res.ret THEN 1 ELSE 0),
                      failed |-> acc.failed + (IF res.ret THEN 0 ELSE 1),
                      opened |-> acc.opened + res.opened,
                      closed |-> acc.closed + res.closed,
                      log |-> Append(acc.log, pid) ]
         IN IF res.ret THEN SuspendLoop_aborts(Tail(pids), oc, nxt) ELSE nxt

\* What a category method leaves behind: the running state r with the
\* tracked set, the results dict and the record of the batch (the list that
\* was resolved, the pids passed to _suspend_process, the two counts, and
\* whether the enumeration behind the list raised).
BatchDone(cat, pids, out, seen, r) ==
    [ r EXCEPT
        !.pids = out.pids,
        !.results = [ suspended |-> out.suspended, failed |-> out.failed ],
        !.call = [ r.call EXCEPT
                     !.suspendLog = out.log,
                     !.opened = out.opened,
                     !.closed = out.closed,
                     !.resolved = @ \cup ToSet(pids),
                     !.categories = @ \cup {cat},
                     !.batch = [ pids |-> pids,
                                 log |-> SubSeq(out.log, Len(r.call.suspendLog) + 1,
                                                Len(out.log)),
                                 suspended |-> out.suspended,
                                 failed |-> out.failed,
                                 enum_failed |-> EnumerationFailed(seen) ] ] ]

\* The accumulator a category loop starts from.
BatchStart(r) ==
    [ pids |-> r.pids, suspended |-> 0, failed |-> 0,
      opened |-> r.call.opened, closed |-> r.call.closed,
      log |-> r.call.suspendLog ]

\* The category body whose loop ends at the first failed suspend.
SuspendCategory_aborts(names, cat, seen, oc, r) ==
    BatchDone(cat, _get_pids_by_name(names, seen, {}),
              SuspendLoop_aborts(_get_pids_by_name(names, seen, {}), oc, BatchStart(r)),
              seen, r)

\* Body shared by suspend_browsers / suspend_launchers /
\* suspend_background_apps: resolve the list, then the loop.
SuspendCategory(names, cat, seen, oc, r) ==
    BatchDone(cat, _get_pids_by_name(names, seen, {}),
              SuspendLoop(_get_pids_by_name(names, seen, {}), oc, BatchStart(r)),
              seen, r)

suspend_browsers_method(seen, oc, r) ==
    SuspendCategory(BROWSER_PROCESSES, "browsers", seen, oc, r)

suspend_launchers_method(seen, oc, r) ==
    SuspendCategory(LAUNCHER_PROCESSES, "launchers", seen, oc, r)

suspend_background_apps(seen, oc, r) ==
    SuspendCategory(BACKGROUND_PROCESSES, "background", seen, oc, r)

\* The loop of the method suspend_explorer over the enumerated processes:
\* the first explorer.exe whose suspend succeeds fills the shell slot.
RECURSIVE ExplorerLoop(_, _, _)
ExplorerLoop(procs, oc, r) ==
    IF procs = << >> THEN [ r EXCEPT !.ret = FALSE ]
    ELSE LET pid == Head(procs)
         IN IF NameOf(pid) # "" /\ Lower(NameOf(pid)) = EXPLORER_NAME
            THEN LET res == _suspend_process(pid, oc[pid], r.pids)
                     r1 == [ r EXCEPT !.pids = res.pids,
                                      !.call.opened = @ + res.opened,
                                      !.call.closed = @ + res.closed,
                                      !.call.suspendLog = Append(@, pid),
                                      !.call.resolved = @ \cup {pid} ]
                 IN IF res.ret
                    THEN [ r1 EXCEPT !.explorer = pid, !.ret = TRUE ]
                    ELSE ExplorerLoop(Tail(procs), oc, r1)
            ELSE ExplorerLoop(Tail(procs), oc, r)

\* The shell processes among the processes an enumeration yielded.
ShellsIn(seen) ==
    { p \in seen : NameOf(p) # "" /\ Lower(NameOf(p)) = EXPLORER_NAME }

\* The loop of suspend_explorer without the `return True` of line 200: it
\* goes on to the next shell process after a suspend has succeeded.
RECURSIVE ExplorerLoop_all(_, _, _)
ExplorerLoop_all(procs, oc, r) ==
    IF procs = << >> THEN r
    ELSE LET pid == Head(procs)
         IN IF pid \in ShellsIn({pid})
            THEN LET res == _suspend_process(pid, oc[pid], r.pids)
                     r1 == [ r EXCEPT !.pids = res.pids,
                                      !.call.opened = @ + res.opened,
                                      !.call.closed = @ + res.closed,
                                      !.call.suspendLog = Append(@, pid),
                                      !.call.resolved = @ \cup {pid} ]
                 IN IF res.ret
                    THEN ExplorerLoop_all(Tail(procs), oc,
                            [ r1 EXCEPT !.explorer = pid, !.ret = TRUE ])
                    ELSE ExplorerLoop_all(Tail(procs), oc, r1)
            ELSE ExplorerLoop_all(Tail(procs), oc, r)

suspend_explorer_method_all(seen, oc, r) ==
    IF ~_psutil_available THEN [ r EXCEPT !.ret = FALSE ]
    ELSE ExplorerLoop_all(SeqOfSet(seen), oc,
            [ r EXCEPT !.call.categories = @ \cup {"shell"},
                       !.call.shell_seen = ShellsIn(seen),
                       !.ret = FALSE ])

\* The method suspend_explorer; the record keeps the shell processes its
\* enumeration yielded.
suspend_explorer_method(seen, oc, r) ==
    IF ~_psutil_available THEN [ r EXCEPT !.ret = FALSE ]
    ELSE ExplorerLoop(SeqOfSet(seen), oc,
            [ r EXCEPT !.call.categories = @ \cup {"shell"},
                       !.call.shell_seen = ShellsIn(seen) ])

\* resume_explorer() with OS outcome o.
resume_explorer(o, r) ==
    IF r.explorer # None
    THEN LET res == _resume_process(r.explorer, o, r.pids)
             r1 == [ r EXCEPT !.pids = res.pids,
                              !.call.opened = @ + res.opened,
                              !.call.closed = @ + res.closed,
                              !.call.resumeLog = Append(@, r.explorer),
                              !.ret = res.ret ]
         IN IF res.ret THEN [ r1 EXCEPT !.explorer = None ] ELSE r1
    ELSE [ r EXCEPT !.ret = TRUE ]

\* The running state at the start of operation o.
Begin(o) ==
    [ pids |-> _suspended_pids, explorer |-> _explorer_pid,
      call |-> StartCall(o), raised |-> FALSE, ret |-> FALSE,
      results |-> [ suspended |-> 0, failed |-> 0 ] ]

\* ------------------------------------------------------------------------
\* Game-Mode Session
\* ------------------------------------------------------------------------
\* `self.suspend_explorer()` looks the name up on the instance first.
\* __init__ assigns suspend_explorer, suspend_browsers and suspend_launchers
\* as instance attributes holding a bool, so the lookup yields the bool and
\* the call raises TypeError; it reaches the method of the class only when
\* the attribute does not hold a bool.
CallsMethod(v) == v \notin BOOLEAN

Raise(r) == [ r EXCEPT !.raised = TRUE ]

\* The attribute values a call of activate_game_mode() reads.
Attrs ==
    [ enabled |-> enabled,
      suspend_explorer |-> suspend_explorer,
      suspend_browsers |-> suspend_browsers,
      suspend_launchers |-> suspend_launchers,
      suspend_background |-> suspend_background ]

\* The categories the attribute values a select.
Selected(a) ==
    (IF a.suspend_explorer THEN {"shell"} ELSE {})
    \cup (IF a.suspend_browsers THEN {"browsers"} ELSE {})
    \cup (IF a.suspend_launchers THEN {"launchers"} ELSE {})
    \cup (IF a.suspend_background THEN {"background"} ELSE {})

\* The steps of activate_game_mode() on the running state r.  A step is
\* skipped once an earlier one has raised.
\* `if self.suspend_explorer: results[...] = self.suspend_explorer()`
ExplorerStep(a, seen, oc, r) ==
    IF ~a.suspend_explorer THEN r
    ELSE IF ~CallsMethod(a.suspend_explorer) THEN Raise(r)
    ELSE [ suspend_explorer_method(seen, oc, r) EXCEPT
             !.call.explorer_suspended = suspend_explorer_method(seen, oc, r).ret ]

\* `if self.suspend_browsers: ... = self.suspend_browsers()["suspended"]`
BrowsersStep(a, seen, oc, r) ==
    IF r.raised \/ ~a.suspend_browsers THEN r
    ELSE IF ~CallsMethod(a.suspend_browsers) THEN Raise(r)
    ELSE [ suspend_browsers_method(seen, oc, r) EXCEPT
             !.call.browsers_suspended =
                 suspend_browsers_method(seen, oc, r).results.suspended ]

\* `if self.suspend_launchers: ... = self.suspend_launchers()["suspended"]`
LaunchersStep(a, seen, oc, r) ==
    IF r.raised \/ ~a.suspend_launchers THEN r
    ELSE IF ~CallsMethod(a.suspend_launchers) THEN Raise(r)
    ELSE [ suspend_launchers_method(seen, oc, r) EXCEPT
             !.call.launchers_suspended =
                 suspend_launchers_method(seen, oc, r).results.suspended ]

\* `if self.suspend_background: ... = self.suspend_background_apps()[...]`
BackgroundStep(a, seen, oc, r) ==
    IF r.raised \/ ~a.suspend_background THEN r
    ELSE [ suspend_background_apps(seen, oc, r) EXCEPT
             !.call.background_suspended =
                 suspend_background_apps(seen, oc, r).results.suspended ]

\* The total and the return of the results, unless a step has raised.
TotalStep(r) ==
    IF r.raised
    THEN [ r EXCEPT !.call.status = "raised" ]
    ELSE [ r EXCEPT
             !.call.status = "activated",
             !.call.has_total = TRUE,
             !.call.total_suspended =
                 (IF r.call.explorer_suspended THEN 1 ELSE 0)
                 + r.call.browsers_suspended
                 + r.call.launchers_suspended
                 + r.call.background_suspended ]

\* activate_game_mode() reading the attribute values a; `seen` is what the
\* enumerations yield and oc the OS outcome of the suspend call on each pid.
activate_game_mode(a, seen, oc) ==
    IF ~a.enabled
    THEN [ Begin("activate") EXCEPT !.call.status = "disabled" ]
    ELSE TotalStep(
           BackgroundStep(a, seen, oc,
             LaunchersStep(a, seen, oc,
               BrowsersStep(a, seen, oc,
                 ExplorerStep(a, seen, oc, Begin("activate"))))))

\* The loop `for pid in list(self._suspended_pids)` of deactivate_game_mode.
RECURSIVE ResumeLoop(_, _, _)
ResumeLoop(pids, oc, r) ==
    IF pids = << >> THEN r
    ELSE LET pid == Head(pids)
             res == _resume_process(pid, oc[pid], r.pids)
         IN ResumeLoop(Tail(pids), oc,
               [ r EXCEPT
                   !.pids = res.pids,
                   !.call.opened = @ + res.opened,
                   !.call.closed = @ + res.closed,
                   !.call.resumeLog = Append(@, pid),
                   !.call.resumed = @ + (IF res.ret THEN 1 ELSE 0),
                   !.call.failed = @ + (IF res.ret THEN 0 ELSE 1) ])

\* deactivate_game_mode that calls resume_explorer() without testing the
\* shell slot first.
deactivate_game_mode_unguarded(oe, oc) ==
    LET r0 == Begin("deactivate")
        m == resume_explorer(oe, r0)
        r1 == IF m.ret
              THEN [ m EXCEPT !.call.resumed = @ + 1 ]
              ELSE [ m EXCEPT !.call.failed = @ + 1 ]
        r2 == ResumeLoop(SeqOfSet(r1.pids), oc, r1)
    IN [ r2 EXCEPT !.call.status = "deactivated" ]

\* deactivate_game_mode that resumes the other tracked processes first and
\* the shell last.
deactivate_game_mode_shell_last(oe, oc) ==
    LET r0 == Begin("deactivate")
        r1 == ResumeLoop(SeqOfSet(r0.pids \ {r0.explorer}), oc, r0)
        r2 == IF r1.explorer # None
              THEN LET m == resume_explorer(oe, r1)
                   IN IF m.ret
                      THEN [ m EXCEPT !.call.resumed = @ + 1 ]
                      ELSE [ m EXCEPT !.call.failed = @ + 1 ]
              ELSE r1
    IN [ r2 EXCEPT !.call.status = "deactivated" ]

\* deactivate_game_mode that begins as activate_game_mode does, with
\* `if not self.enabled: return {"status": "disabled"}`.
deactivate_game_mode_gated(oe, oc) ==
    IF ~enabled
    THEN [ Begin("deactivate") EXCEPT !.call.status = "disabled" ]
    ELSE LET r0 == Begin("deactivate")
             r1 == IF r0.explorer # None
                   THEN LET m == resume_explorer(oe, r0)
                        IN IF m.ret
                           THEN [ m EXCEPT !.call.resumed = @ + 1 ]
                           ELSE [ m EXCEPT !.call.failed = @ + 1 ]
                   ELSE r0
             r2 == ResumeLoop(SeqOfSet(r1.pids), oc, r1)
         IN [ r2 EXCEPT !.call.status = "deactivated" ]

\* deactivate_game_mode(); oe is the OS outcome of the shell resume and oc
\* the outcome of the resume call on each tracked pid.
deactivate_game_mode(oe, oc) ==
    LET r0 == Begin("deactivate")
        r1 == IF r0.explorer # None
              THEN LET m == resume_explorer(oe, r0)
                   IN IF m.ret
                      THEN [ m EXCEPT !.call.resumed = @ + 1 ]
                      ELSE [ m EXCEPT !.call.failed = @ + 1 ]
              ELSE r0
        r2 == ResumeLoop(SeqOfSet(r1.pids), oc, r1)
    IN [ r2 EXCEPT !.call.status = "deactivated" ]

\* get_status(): the fields computed from the session (lines 367-370).
\* `is not None` tests the slot for None, `if self._explorer_pid` for
\* truthiness; the slot holds None or a pid greater than 0.
get_status ==
    [ enabled |-> enabled,
      game_mode_active |-> Cardinality(_suspended_pids) > 0 \/ _explorer_pid # None,
      suspended_count |-> Cardinality(_suspended_pids)
                            + (IF _explorer_pid # None THEN 1 ELSE 0),
      explorer_suspended |-> _explorer_pid # None ]

\* ------------------------------------------------------------------------
\* Actions
\* ------------------------------------------------------------------------
Commit(r) ==
    /\ _suspended_pids' = r.pids
    /\ _explorer_pid' = r.explorer
    /\ call' = r.call

\* The pids a call of activate_game_mode() can pass to _suspend_process:
\* those it passes when every suspend fails (a failure stops no loop).  They
\* are the calls whose OS outcome the action has to choose.
AllFail == [ p \in AllPids |-> "open_failed" ]

ActivateTargets(a, seen) ==
    ToSet(activate_game_mode(a, seen, AllFail).call.suspendLog)

\* The enumerations that make a difference for a call of
\* activate_game_mode() reading a: one, if the call passes no pid to
\* _suspend_process even when it sees every process.
SeenChoices(a) ==
    IF ActivateTargets(a, AllPids) = {} THEN {AllPids} ELSE Enumerations

ExplorerTargets(seen) ==
    ToSet(suspend_explorer_method(seen, AllFail, Begin("suspend_explorer")).call.suspendLog)

\* A caller assigns the service's public attribute `enabled`.
SetEnabled ==
    /\ enabled' = ~enabled
    /\ UNCHANGED << suspend_explorer, suspend_browsers, suspend_launchers,
                    suspend_background, _suspended_pids,
                    _explorer_pid, env, others, call, app >>

\* A caller of the library assigns the four category attributes the
\* service reads and calls activate_game_mode().
ActivateGameMode ==
    \E te \in BOOLEAN, tb \in BOOLEAN, tl \in BOOLEAN, tg \in BOOLEAN :
      LET a == [ Attrs EXCEPT !.suspend_explorer = te,
                              !.suspend_browsers = tb,
                              !.suspend_launchers = tl,
                              !.suspend_background = tg ]
      IN /\ suspend_explorer' = te
         /\ suspend_browsers' = tb
         /\ suspend_launchers' = tl
         /\ suspend_background' = tg
         /\ \E seen \in SeenChoices(a) :
              \E oc \in OutcomeChoices(ActivateTargets(a, seen)) :
                LET r == activate_game_mode(a, seen, oc)
                IN Commit([ r EXCEPT !.call.supplied = Selected(a) ])
         /\ UNCHANGED << enabled, env, others, app >>

\* A caller of the library calls deactivate_game_mode().
DeactivateGameMode ==
    \E oe \in (IF _explorer_pid = None THEN {"ok"} ELSE Outcomes) :
      \E oc \in OutcomeChoices(_suspended_pids) :
        /\ Commit(deactivate_game_mode(oe, oc))
        /\ UNCHANGED << attrs, env, others, app >>

\* Values of the three UI switches (shell, browsers, launchers), as the set
\* of categories switched on: the defaults, none, and one category alone.
UiToggles == { {"shell", "browsers", "launchers"}, {}, {"browsers"} }

\* OpenGameBoostApp._activate_game_mode.run_activation: the worker assigns
\* the three UI toggles to the service attributes should_suspend_explorer,
\* should_suspend_browsers and should_suspend_launchers and calls
\* activate_game_mode(); an exception is caught and logged by the worker.
\* No code reads the should_suspend_* attributes, so they are no state of
\* the model: the toggles the worker supplied are kept in call.supplied.
RunActivation ==
    \E ui \in UiToggles :
      \E seen \in SeenChoices(Attrs) :
        \E oc \in OutcomeChoices(ActivateTargets(Attrs, seen)) :
          LET r == activate_game_mode(Attrs, seen, oc)
          IN /\ Commit([ r EXCEPT !.call.op = "run_activation",
                                  !.call.supplied = ui ])
             /\ UNCHANGED << attrs, env, others, app >>

\* The method suspend_explorer invoked as the function of the class,
\* SuspendService.suspend_explorer(service): on an instance the name is
\* bound to the bool attribute (see CallsMethod).
SuspendExplorer ==
    \E seen \in Enumerations :
      \E oc \in OutcomeChoices(ExplorerTargets(seen)) :
        LET r == suspend_explorer_method(seen, oc, Begin("suspend_explorer"))
        IN /\ Commit([ r EXCEPT !.call.status = "returned",
                                !.call.explorer_suspended = r.ret ])
           /\ UNCHANGED << attrs, env, others, app >>

\* A caller calls resume_explorer().
ResumeExplorer ==
    \E oe \in (IF _explorer_pid = None THEN {"ok"} ELSE Outcomes) :
      LET r == resume_explorer(oe, Begin("resume_explorer"))
      IN /\ Commit([ r EXCEPT !.call.status = "returned",
                              !.call.resumed = IF r.ret THEN 1 ELSE 0 ])
         /\ UNCHANGED << attrs, env, others, app >>

\* _resume_process(pid) called on its own, for any pid.
ResumeProcess ==
    \E pid \in AllPids, o \in Outcomes :
      LET res == _resume_process(pid, o, _suspended_pids)
          r == Begin("resume_process")
      IN /\ Commit([ r EXCEPT
                       !.pids = res.pids,
                       !.call.status = "returned",
                       !.call.resumeLog = << pid >>,
                       !.call.resumed = IF res.ret THEN 1 ELSE 0,
                       !.call.failed = IF res.ret THEN 0 ELSE 1,
                       !.call.opened = res.opened,
                       !.call.closed = res.closed ])
         /\ UNCHANGED << attrs, env, others, app >>

\* ------------------------------------------------------------------------
\* Game detector (src/services/game_detector.py)
\* ------------------------------------------------------------------------
\* Two entries of SUPPORTED_GAMES, in the order of the dict.
GameOrder == << "Call of Duty", "Apex Legends" >>
Games == ToSet(GameOrder)

SUPPORTED_GAMES ==
    [ g \in Games |->
        IF g = "Call of Duty"
        THEN << "cod.exe", "ModernWarfare.exe", "BlackOpsColdWar.exe", "cod.exe" >>
        ELSE << "r5apex.exe" >> ]

\* Executable names a process enumeration can show: a game under another
\* letter case, a game, and a process whose name is not known.
ProcNames == { "COD.EXE", "r5apex.exe", "" }
Snapshots == SUBSET ProcNames

\* The inner loop of _check_games for one process name: the first game of
\* SUPPORTED_GAMES with that executable, ignoring case ("" if there is none).
RECURSIVE GameOf(_, _)
GameOf(proc_name, games) ==
    IF games = << >> THEN ""
    ELSE IF Lower(proc_name) \in { Lower(p) : p \in ToSet(SUPPORTED_GAMES[Head(games)]) }
         THEN Head(games)
         ELSE GameOf(proc_name, Tail(games))

\* current_games as _check_games builds it from the enumerated names.
CurrentGames(snap) ==
    { GameOf(n, GameOrder) : n \in { m \in snap : m # "" } } \ {""}

\* The games of S as a sequence, in the order of the catalog or in the
\* reverse order: the iteration order of a Python set of str is not fixed.
InOrder(S, rev) ==
    LET f == SelectSeq(GameOrder, LAMBDA g : g \in S)
    IN IF rev THEN [ i \in 1..Len(f) |-> f[Len(f) + 1 - i] ] ELSE f

\* The orders that make a difference for the sets prev and cur: one, unless
\* two games are new or two games have closed.
Orders(prev, cur) ==
    IF Cardinality(cur \ prev) > 1 \/ Cardinality(prev \ cur) > 1
    THEN BOOLEAN
    ELSE {FALSE}

Event(k, g) == [ kind |-> k, game |-> g ]

\* The callbacks _check_games makes (lines 120-130) for the previous set
\* prev and the new set cur, in the order it makes them.
DetectedEvents(prev, cur, auto, cbd, rev) ==
    IF auto /\ cbd
    THEN [ i \in 1..Len(InOrder(cur \ prev, rev)) |->
             Event("detected", InOrder(cur \ prev, rev)[i]) ]
    ELSE << >>

\* ClosedEvents that makes the closed callbacks only when auto_optimize is
\* set, as the detected callbacks are made.
ClosedEvents_gated(prev, cur, auto, cbc, rev) ==
    IF auto /\ cbc
    THEN [ i \in 1..Len(InOrder(prev \ cur, rev)) |->
             Event("closed", InOrder(prev \ cur, rev)[i]) ]
    ELSE << >>

ClosedEvents(prev, cur, auto, cbc, rev) ==
    IF cbc
    THEN [ i \in 1..Len(InOrder(prev \ cur, rev)) |->
             Event("closed", InOrder(prev \ cur, rev)[i]) ]
    ELSE << >>

_check_games_events(prev, cur, auto, cbd, cbc, rev) ==
    DetectedEvents(prev, cur, auto, cbd, rev)
        \o ClosedEvents(prev, cur, auto, cbc, rev)

\* The kind of the last callback made for each game, after the callbacks of
\* ev have been called in order ("none": no callback was made for it yet).
NeverNotified == [ g \in Games |-> "none" ]

RECURSIVE Deliver(_, _)
Deliver(n, ev) ==
    IF ev = << >> THEN n
    ELSE Deliver([ n EXCEPT ![Head(ev).game] = Head(ev).kind ], Tail(ev))

\* The scripted sequence of detected sets and the notifications expected
\* for it, one per tick.
ScriptedSets ==
    << {"Call of Duty"}, {"Call of Duty", "Apex Legends"}, {"Apex Legends"}, {} >>
ScriptedEvents ==
    << Event("detected", "Call of Duty"), Event("detected", "Apex Legends"),
       Event("closed", "Call of Duty"), Event("closed", "Apex Legends") >>

OffScript == [ pos |-> -1, events |-> << >> ]

\* script after a tick that computed cur and made the callbacks of events:
\* pos counts the ticks so far when they computed the scripted sets, in
\* order, from the empty set and with both callbacks registered; events
\* are the notifications of the last of these ticks.
ScriptStep(sc, cur, events, cbd, cbc) ==
    IF sc.pos >= 0 /\ sc.pos < Len(ScriptedSets) /\ cbd /\ cbc
       /\ cur = ScriptedSets[sc.pos + 1]
    THEN [ pos |-> sc.pos + 1, events |-> events ]
    ELSE OffScript

\* time.sleep(self.check_interval) and self._thread.join(timeout=2).
check_interval == 5
JoinTimeout == 2

\* Bounds: the detection threads that exist at once, and the handler calls
\* still queued on the main thread when a tick makes its callbacks.
MaxThreads == 2
MaxBacklog == 0

ThreadIds == 1..MaxThreads
NoThread == [ pc |-> "dead", cur |-> {}, seen |-> {} ]
Asleep == [ pc |-> "sleep", cur |-> {}, seen |-> {} ]

\* The threads inside _detection_loop (not yet returned from it).
Alive(ths) == { t \in ThreadIds : ths[t].pc # "dead" }
\* The threads inside _check_games.
Checking(ths) == { t \in ThreadIds : ths[t].pc = "store" }

\* The detector fields start() and stop() work on.
Detector == [ _running |-> _running, _thread |-> _thread, threads |-> threads ]

FreeId(ths) == CHOOSE t \in ThreadIds \ Alive(ths) :
                  \A u \in ThreadIds \ Alive(ths) : t <= u

\* start()
start(d) ==
    IF d._running THEN d
    ELSE [ d EXCEPT !._running = TRUE,
                    !._thread = FreeId(d.threads),
                    !.threads[FreeId(d.threads)] = Asleep ]

\* The thread stop() joins returns from the loop within the join: it is
\* asleep with `left` of its sleep to go, and wakes to a cleared flag.
ExitsIn(d, left, limit) ==
    /\ d._thread # None
    /\ d.threads[d._thread].pc = "sleep"
    /\ left <= limit

\* stop() that joins without a timeout: it waits until the loop has ended.
stop_unbounded(d, left) ==
    [ _running |-> FALSE, _thread |-> d._thread,
      threads |-> IF d._thread # None
                  THEN [ d.threads EXCEPT ![d._thread] = NoThread ]
                  ELSE d.threads,
      waited |-> IF d._thread = None \/ d.threads[d._thread].pc = "dead" THEN 0
                 ELSE IF d.threads[d._thread].pc = "sleep" THEN left
                 ELSE check_interval ]

\* stop(); `left` is what is left of the sleep of the loop.  The result
\* carries the time the join took.
stop(d, left) ==
    [ _running |-> FALSE, _thread |-> d._thread,
      threads |-> IF ExitsIn(d, left, JoinTimeout)
                  THEN [ d.threads EXCEPT ![d._thread] = NoThread ]
                  ELSE d.threads,
      waited |-> IF d._thread = None \/ d.threads[d._thread].pc = "dead" THEN 0
                 ELSE IF ExitsIn(d, left, JoinTimeout) THEN left
                 ELSE JoinTimeout ]

\* The record of a stop() that has just returned: the time its join took.
NoStep == [ op |-> "none", waited |-> 0 ]

\* ------------------------------------------------------------------------
\* Actions of the detector and of the application around it
\* ------------------------------------------------------------------------
SetDetector(d) ==
    /\ _running' = d._running
    /\ _thread' = d._thread
    /\ threads' = d.threads

\* A caller on the main thread calls start().
CallStart ==
    /\ _running \/ Alive(threads) # ThreadIds
    /\ SetDetector(start(Detector))
    /\ last' = NoStep

\* What can be left of the loop's sleep when stop() is called: nothing, the
\* whole join timeout, or the whole interval.
SleepLeft == { 0, JoinTimeout, check_interval }

\* A caller on the main thread calls stop().
CallStop ==
    \E left \in SleepLeft :
      /\ SetDetector([ f \in {"_running", "_thread", "threads"} |->
                         stop(Detector, left)[f] ])
      /\ last' = [ op |-> "stop", waited |-> stop(Detector, left).waited ]

\* OpenGameBoostApp.__init__: the detector is configured from the saved
\* config and the two callbacks are registered.
ConfigureApp ==
    /\ ~on_game_detected
    /\ det_enabled' \in BOOLEAN
    /\ auto_optimize' \in BOOLEAN
    /\ on_game_detected' = TRUE
    /\ on_game_closed' = TRUE
    /\ UNCHANGED << detected_games, _running, _thread, threads, pending,
                    game_mode_active, script, last, svc, env, others, mode, notified >>

\* OpenGameBoostApp.run: the detector is started if the config enables it.
Run ==
    /\ on_game_detected
    /\ det_enabled
    /\ CallStart
    /\ UNCHANGED << det_enabled, auto_optimize, detected_games,
                    on_game_detected, on_game_closed, pending,
                    game_mode_active, script, svc, env, others, mode, notified >>

\* OpenGameBoostApp._toggle_service("game_detector", e).
ToggleService ==
    /\ on_game_detected
    /\ \E e \in BOOLEAN :
         /\ det_enabled' = e
         /\ IF e THEN CallStart ELSE CallStop
    /\ UNCHANGED << auto_optimize, detected_games, on_game_detected,
                    on_game_closed, pending, game_mode_active, script,
                    svc, env, others, mode, notified >>

\* OpenGameBoostApp._toggle_game_detection with the switch on or off.
ToggleGameDetection ==
    /\ on_game_detected
    /\ \E v \in BOOLEAN :
         IF v
         THEN /\ on_game_detected' = TRUE
              /\ on_game_closed' = TRUE
              /\ CallStart
         ELSE /\ UNCHANGED << on_game_detected, on_game_closed >>
              /\ CallStop
    /\ UNCHANGED << det_enabled, auto_optimize, detected_games, pending,
                    game_mode_active, script, svc, env, others, mode, notified >>

\* A loop whose `while` has no test of the flag: the thread sleeps again
\* whatever _running is.
Wake_keeps_polling(t) ==
    /\ threads[t].pc = "sleep"
    /\ last' = NoStep
    /\ UNCHANGED << det_enabled, auto_optimize, detected_games,
                    on_game_detected, on_game_closed, _running, _thread,
                    threads, pending, game_mode_active, script, svc, env, others, mode, notified >>

\* A pass of `while self._running:` in thread t that makes no tick: the
\* flag is cleared and the loop ends; or the detector is disabled or psutil
\* is missing.  The thread goes back to sleep unless the loop has ended.
Wake(t) ==
    /\ threads[t].pc = "sleep"
    /\ ~(_running /\ det_enabled /\ _psutil_available)
    /\ IF _running
       THEN UNCHANGED threads
       ELSE threads' = [ threads EXCEPT ![t] = NoThread ]
    /\ last' = NoStep
    /\ UNCHANGED << det_enabled, auto_optimize, detected_games,
                    on_game_detected, on_game_closed, _running, _thread,
                    pending, game_mode_active, script, svc, env, others, mode, notified >>

\* The record of a tick whose enumeration has just raised.
EnumFailed == [ op |-> "enum_failed", waited |-> 0 ]

\* _check_games with no `except` around the enumeration: the exception
\* leaves _detection_loop and the thread ends.
EnumerationRaises_uncaught(t) ==
    /\ threads[t].pc = "sleep"
    /\ _running /\ det_enabled /\ _psutil_available
    /\ threads' = [ threads EXCEPT ![t] = NoThread ]
    /\ last' = EnumFailed
    /\ UNCHANGED << det_enabled, auto_optimize, detected_games,
                    on_game_detected, on_game_closed, _running, _thread,
                    pending, game_mode_active, script, svc, env, others, mode,
                    notified >>

\* A pass of the loop in thread t in which process_iter raises, before or
\* after it has yielded processes: the `except Exception` of lines 115-117
\* logs and returns, current_games is dropped, and the loop sleeps.
EnumerationRaises(t) ==
    /\ threads[t].pc = "sleep"
    /\ _running /\ det_enabled /\ _psutil_available
    /\ last' = EnumFailed
    /\ UNCHANGED << det_enabled, auto_optimize, detected_games,
                    on_game_detected, on_game_closed, _running, _thread,
                    threads, pending, game_mode_active, script, svc, env, others,
                    mode, notified >>

\* A loop that calls _check_games whatever `enabled` is.
Notify_ignores_enabled(t) ==
    /\ threads[t].pc = "sleep"
    /\ _running /\ _psutil_available
    /\ Len(pending) <= MaxBacklog
    /\ \E snap \in Snapshots :
       \E rev \in Orders(detected_games, CurrentGames(snap)) :
         LET ev == _check_games_events(detected_games, CurrentGames(snap),
                      auto_optimize, on_game_detected, on_game_closed, rev)
         IN /\ pending' = pending \o ev
            /\ notified' = Deliver(notified, ev)
            /\ script' = ScriptStep(script, CurrentGames(snap), ev,
                                    on_game_detected, on_game_closed)
            /\ threads' = [ threads EXCEPT
                              ![t] = [ pc |-> "store",
                                       cur |-> CurrentGames(snap),
                                       seen |-> snap ] ]
    /\ last' = NoStep
    /\ UNCHANGED << det_enabled, auto_optimize, detected_games,
                    on_game_detected, on_game_closed, _running, _thread,
                    game_mode_active, svc, env, others, mode >>

\* A pass of the loop in thread t that runs _check_games up to line 130:
\* the enumeration gives current_games, the previous set is read and the
\* callbacks are made; each callback queues its handler on the main thread
\* (_on_game_detected, _on_game_closed: root.after(0, ...)).
Notify(t) ==
    /\ threads[t].pc = "sleep"
    /\ _running /\ det_enabled /\ _psutil_available
    /\ Len(pending) <= MaxBacklog
    /\ \E snap \in Snapshots :
       \E rev \in Orders(detected_games, CurrentGames(snap)) :
         LET ev == _check_games_events(detected_games, CurrentGames(snap),
                      auto_optimize, on_game_detected, on_game_closed, rev)
         IN /\ pending' = pending \o ev
            /\ notified' = Deliver(notified, ev)
            /\ script' = ScriptStep(script, CurrentGames(snap), ev,
                                    on_game_detected, on_game_closed)
            /\ threads' = [ threads EXCEPT
                              ![t] = [ pc |-> "store",
                                       cur |-> CurrentGames(snap),
                                       seen |-> snap ] ]
    /\ last' = NoStep
    /\ UNCHANGED << det_enabled, auto_optimize, detected_games,
                    on_game_detected, on_game_closed, _running, _thread,
                    game_mode_active, svc, env, others, mode >>

\* A pass of the loop in thread t in which the k-th callback of the tick
\* raises.  _check_games and _detection_loop catch nothing around the
\* callbacks (lines 121-130, 92-95): the exception leaves both, the thread
\* ends, line 132 is not reached and _running stays set.  The callbacks made
\* before have queued their handlers.
NotifyRaises(t) ==
    /\ threads[t].pc = "sleep"
    /\ _running /\ det_enabled /\ _psutil_available
    /\ Len(pending) <= MaxBacklog
    /\ \E snap \in Snapshots :
       \E rev \in Orders(detected_games, CurrentGames(snap)) :
         LET ev == _check_games_events(detected_games, CurrentGames(snap),
                      auto_optimize, on_game_detected, on_game_closed, rev)
         IN \E k \in 1..Len(ev) :
              /\ pending' = pending \o SubSeq(ev, 1, k - 1)
              /\ notified' = Deliver(notified, SubSeq(ev, 1, k - 1))
    /\ threads' = [ threads EXCEPT ![t] = NoThread ]
    /\ script' = OffScript
    /\ last' = NoStep
    /\ UNCHANGED << det_enabled, auto_optimize, detected_games,
                    on_game_detected, on_game_closed, _running, _thread,
                    game_mode_active, svc, env, others, mode >>

\* Line 132 that adds the new set to the stored one.
Store_merges(t) ==
    /\ threads[t].pc = "store"
    /\ detected_games' = detected_games \cup threads[t].cur
    /\ threads' = [ threads EXCEPT ![t] = Asleep ]
    /\ last' = NoStep
    /\ UNCHANGED << det_enabled, auto_optimize, on_game_detected,
                    on_game_closed, _running, _thread, pending,
                    game_mode_active, script, svc, env, others, mode, notified >>

\* Line 132 of _check_games in thread t, then time.sleep.
Store(t) ==
    /\ threads[t].pc = "store"
    /\ detected_games' = threads[t].cur
    /\ threads' = [ threads EXCEPT ![t] = Asleep ]
    /\ last' = NoStep
    /\ UNCHANGED << det_enabled, auto_optimize, on_game_detected,
                    on_game_closed, _running, _thread, pending,
                    game_mode_active, script, svc, env, others, mode, notified >>

\* The main thread runs the queued _handle_game_detected(game): the label,
\* then _boost_all() if auto_optimize is set.  _boost_all runs the memory,
\* network, power and registry optimizations and _set_game_mode(True); it
\* makes no call on the suspend service.
HandleGameDetected ==
    /\ pending # << >>
    /\ Head(pending).kind = "detected"
    /\ pending' = Tail(pending)
    /\ game_mode_active' = (IF auto_optimize THEN TRUE ELSE game_mode_active)
    /\ last' = NoStep
    /\ UNCHANGED << det_enabled, auto_optimize, detected_games,
                    on_game_detected, on_game_closed, _running, _thread,
                    threads, script, svc, env, others, mode, notified >>

\* The main thread runs the queued _handle_game_closed(game): it reads
\* get_running_games() and, if no game is left, calls _restore_all().
\* _restore_all restores the power plan and the network settings and calls
\* _set_game_mode(False); it makes no call on the suspend service.
HandleGameClosed ==
    /\ pending # << >>
    /\ Head(pending).kind = "closed"
    /\ pending' = Tail(pending)
    /\ game_mode_active' = (IF detected_games = {} THEN FALSE ELSE game_mode_active)
    /\ last' = NoStep
    /\ UNCHANGED << det_enabled, auto_optimize, detected_games,
                    on_game_detected, on_game_closed, _running, _thread,
                    threads, script, svc, env, others, mode, notified >>

\* ------------------------------------------------------------------------
\* The Game Mode button and its workers
\* ------------------------------------------------------------------------
\* The number of workers of each kind that have been started and have not
\* yet queued their callback.
NoWorkers == [ activate |-> 0, deactivate |-> 0 ]
InFlight(w) == w.activate + w.deactivate

\* Workers the model lets be in flight at once.
MaxWorkers == 2

\* A callback the main thread runs from its queue, on the button state and
\* the game_mode_active flag ui: _on_game_mode_activated,
\* _on_game_mode_deactivated, _on_game_mode_error, and the two handlers of
\* the detector's notifications.
Callback(e, ui) ==
    CASE e.kind = "activated"   -> [ btn |-> "normal", active |-> TRUE ]
      [] e.kind = "deactivated" -> [ btn |-> "normal", active |-> FALSE ]
      [] e.kind = "error"       -> [ ui EXCEPT !.btn = "normal" ]
      [] e.kind = "detected"    ->
            [ ui EXCEPT !.active = IF auto_optimize THEN TRUE ELSE @ ]
      [] OTHER                  ->
            [ ui EXCEPT !.active = IF detected_games = {} THEN FALSE ELSE @ ]

\* self.root.update(): the main thread runs every callback of its queue.
RECURSIVE update(_, _)
update(q, ui) ==
    IF q = << >> THEN ui
    ELSE update(Tail(q), Callback(Head(q), ui))

\* _toggle_game_mode that leaves the button enabled while the worker runs.
ToggleGameMode_keeps_enabled ==
    /\ on_game_detected
    /\ game_mode_btn = "normal"
    /\ InFlight(workers) < MaxWorkers
    /\ LET kind == IF game_mode_active THEN "deactivate" ELSE "activate"
           ui == update(pending, [ btn |-> game_mode_btn,
                                   active |-> game_mode_active ])
       IN /\ game_mode_btn' = ui.btn
          /\ game_mode_active' = ui.active
          /\ pending' = << >>
          /\ workers' = [ workers EXCEPT ![kind] = @ + 1 ]
    /\ UNCHANGED << det, svc, env, others >>

\* A click on the Game Mode button: the toolkit runs the command
\* _toggle_game_mode only while the button is not disabled.  The command
\* reads game_mode_active, and _activate_game_mode or _deactivate_game_mode
\* disables the button, runs the queued callbacks (root.update()) and
\* starts the worker thread.
ToggleGameMode ==
    /\ on_game_detected
    /\ game_mode_btn = "normal"
    /\ InFlight(workers) < MaxWorkers
    /\ LET kind == IF game_mode_active THEN "deactivate" ELSE "activate"
           ui == update(pending, [ btn |-> "disabled",
                                   active |-> game_mode_active ])
       IN /\ game_mode_btn' = ui.btn
          /\ game_mode_active' = ui.active
          /\ pending' = << >>
          /\ workers' = [ workers EXCEPT ![kind] = @ + 1 ]
    /\ UNCHANGED << det, svc, env, others >>

\* run_activation in its thread: the call of activate_game_mode(), the
\* other optimizations (rest_ok: none of them raises), and the callback it
\* queues for the main thread, _on_game_mode_activated or, from the except
\* clause, _on_game_mode_error.
ActivationWorker ==
    /\ workers.activate > 0
    /\ \E ui \in UiToggles, rest_ok \in BOOLEAN :
         \E seen \in SeenChoices(Attrs) :
           \E oc \in OutcomeChoices(ActivateTargets(Attrs, seen)) :
             /\ Commit([ activate_game_mode(Attrs, seen, oc) EXCEPT
                           !.call.op = "run_activation",
                           !.call.supplied = ui ])
             /\ pending' = Append(pending,
                   Event(IF activate_game_mode(Attrs, seen, oc).raised \/ ~rest_ok
                         THEN "error" ELSE "activated", ""))
    /\ workers' = [ workers EXCEPT !.activate = @ - 1 ]
    /\ UNCHANGED << attrs, env, others, det, game_mode_active, game_mode_btn >>

\* run_deactivation in its thread: deactivate_game_mode(), the restores of
\* the other services, and the callback it queues.
DeactivationWorker ==
    /\ workers.deactivate > 0
    /\ \E oe \in (IF _explorer_pid = None THEN {"ok"} ELSE Outcomes), rest_ok \in BOOLEAN :
         \E oc \in OutcomeChoices(_suspended_pids) :
           /\ Commit(deactivate_game_mode(oe, oc))
           /\ pending' = Append(pending,
                 Event(IF rest_ok THEN "deactivated" ELSE "error", ""))
    /\ workers' = [ workers EXCEPT !.deactivate = @ - 1 ]
    /\ UNCHANGED << attrs, env, others, det, game_mode_active, game_mode_btn >>

\* The main thread runs the callback a worker queued.
OnGameModeCallback ==
    /\ pending # << >>
    /\ Head(pending).kind \in {"activated", "deactivated", "error"}
    /\ LET ui == Callback(Head(pending), [ btn |-> game_mode_btn,
                                           active |-> game_mode_active ])
       IN /\ game_mode_btn' = ui.btn
          /\ game_mode_active' = ui.active
    /\ pending' = Tail(pending)
    /\ UNCHANGED << det, svc, env, others, workers >>

\* _set_game_mode(active), from _scan_games, the boost worker or
\* _restore_all.
SetGameMode ==
    /\ on_game_detected
    /\ \E active \in BOOLEAN : game_mode_active' = active
    /\ UNCHANGED << det, svc, env, others, pending, mode >>

\* ------------------------------------------------------------------------
\* Power service (src/services/power_service.py)
\* ------------------------------------------------------------------------
\* The plans of POWER_PLANS, by name, and a plan of the machine that the
\* table does not list.  A plan stands for its GUID.
POWER_PLANS ==
    { "balanced", "high_performance", "power_saver", "ultimate_performance" }
Plans == POWER_PLANS \cup { "oem_plan" }

\* Python's None for the Optional[str] original_plan.
NoPlan == "None"

\* Outcomes of the powercfg commands of one call: the query of
\* optimize_power_settings (save), the query of set_high_performance (get),
\* and /setactive of the ultimate, the high performance and the saved plan.
PowerOutcomes == [ { "save", "get", "ultimate", "high", "restore" } -> BOOLEAN ]

\* The fields the calls work on.
PowerState == [ original_plan |-> original_plan, active_plan |-> active_plan,
                ret |-> FALSE ]

\* get_current_plan(): the GUID of the active scheme, or None when powercfg
\* fails.
get_current_plan(p, ok) == IF ok THEN p.active_plan ELSE NoPlan

\* set_power_plan(plan_name) for a name of POWER_PLANS.
set_power_plan(p, plan_name, ok) ==
    [ p EXCEPT !.active_plan = IF ok THEN plan_name ELSE @, !.ret = ok ]

\* The save of lines 119-120.
SaveIfUnset(p, o) ==
    IF p.original_plan = NoPlan
    THEN [ p EXCEPT !.original_plan = get_current_plan(p, o["get"]) ]
    ELSE p

\* set_high_performance()
set_high_performance(p, o) ==
    IF o["ultimate"]
    THEN [ SaveIfUnset(p, o) EXCEPT !.active_plan = "ultimate_performance",
                                    !.ret = TRUE ]
    ELSE set_power_plan(SaveIfUnset(p, o), "high_performance", o["high"])

\* restore_power_plan()
restore_power_plan(p, o) ==
    IF p.original_plan # NoPlan
    THEN IF o["restore"]
         THEN [ original_plan |-> NoPlan, active_plan |-> p.original_plan,
                ret |-> TRUE ]
         ELSE [ p EXCEPT !.ret = FALSE ]
    ELSE [ p EXCEPT !.ret = TRUE ]

\* The save of line 178.
SaveCurrent(p, o) ==
    [ p EXCEPT !.original_plan = get_current_plan(p, o["save"]) ]

\* optimize_power_settings() on an enabled service; ret is plan_changed.
\* _optimize_laptop_settings re-activates scheme_current: the active plan
\* stays.
optimize_power_settings(p, desktop, o) ==
    IF desktop = "desktop"
    THEN set_high_performance(SaveCurrent(p, o), o)
    ELSE set_power_plan(SaveCurrent(p, o), "high_performance", o["high"])

\* The record of a call on the power service: its result, and the plan
\* that was active before the first optimizing call since the last restore
\* that returned True (NoPlan: there was no such call).
NoPowerCall == [ op |-> "none", ret |-> FALSE, baseline |-> NoPlan ]

SetPower(r) ==
    /\ original_plan' = r.original_plan
    /\ active_plan' = r.active_plan

\* An optimizing call starts a sequence unless one is under way.
Baseline == IF baseline = NoPlan THEN active_plan ELSE baseline

\* OpenGameBoostApp._toggle_service("power", e).
SetPowerEnabled ==
    /\ power_enabled' = ~power_enabled
    /\ UNCHANGED << is_desktop, original_plan, active_plan, baseline,
                    power_call, cfg, svc, env, app >>

\* A caller (run_activation) calls set_high_performance().
SetHighPerformance ==
    /\ \E o \in PowerOutcomes :
         /\ SetPower(set_high_performance(PowerState, o))
         /\ power_call' = [ op |-> "set_high_performance",
                            ret |-> set_high_performance(PowerState, o).ret,
                            baseline |-> Baseline ]
    /\ baseline' = Baseline
    /\ UNCHANGED << power_enabled, is_desktop, cfg, svc, env, app >>

\* A caller (_optimize_power) calls optimize_power_settings().
OptimizePowerSettings ==
    /\ IF power_enabled
       THEN /\ \E o \in PowerOutcomes :
                 /\ SetPower(optimize_power_settings(PowerState, is_desktop, o))
                 /\ power_call' =
                      [ op |-> "optimize_power_settings",
                        ret |-> optimize_power_settings(PowerState,
                                                        is_desktop, o).ret,
                        baseline |-> Baseline ]
            /\ baseline' = Baseline
       ELSE /\ power_call' = [ op |-> "optimize_power_settings",
                               ret |-> FALSE, baseline |-> baseline ]
            /\ UNCHANGED << original_plan, active_plan, baseline >>
    /\ UNCHANGED << power_enabled, is_desktop, cfg, svc, env, app >>

\* A caller (run_deactivation, _restore_all) calls restore_power_plan().
RestorePowerPlan ==
    /\ \E o \in PowerOutcomes :
         /\ SetPower(restore_power_plan(PowerState, o))
         /\ power_call' = [ op |-> "restore_power_plan",
                            ret |-> restore_power_plan(PowerState, o).ret,
                            baseline |-> baseline ]
         /\ baseline' = IF restore_power_plan(PowerState, o).ret
                        THEN NoPlan ELSE baseline
    /\ UNCHANGED << power_enabled, is_desktop, cfg, svc, env, app >>

\* State of the power service after PowerService.__init__ on a machine of
\* unknown chassis whose active plan is Balanced.
InitPower ==
    /\ power_enabled = TRUE
    /\ is_desktop = "unknown"
    /\ original_plan = NoPlan
    /\ active_plan = "balanced"
    /\ baseline = NoPlan
    /\ power_call = NoPowerCall

\* ------------------------------------------------------------------------
\* Configuration (src/config.py)
\* ------------------------------------------------------------------------
\* Two sections of the literal DEFAULT_CONFIG (lines 11-44), as compiled in.
Sections == { "game_detector", "power" }
CompiledDefaults ==
    [ s \in Sections |->
        IF s = "game_detector"
        THEN [ k \in { "enabled", "auto_optimize" } |-> (k = "auto_optimize") ]
        ELSE [ k \in { "enabled", "auto_switch" } |-> TRUE ] ]

EmptyDict == [ k \in {} |-> FALSE ]

\* dict d1 updated with the items of d2.
Override(d1, d2) ==
    [ k \in DOMAIN d1 \cup DOMAIN d2 |-> IF k \in DOMAIN d2 THEN d2[k] ELSE d1[k] ]

\* A value of self.config[section]: a dict object of its own, or the very
\* dict object that DEFAULT_CONFIG[section] holds.
Own(d) == [ shared |-> FALSE, dict |-> d ]
Shared == [ shared |-> TRUE, dict |-> EmptyDict ]

\* The fields the calls on a Config work on.
ConfigState == [ DEFAULT_CONFIG |-> DEFAULT_CONFIG, config |-> config,
                 config_file |-> config_file, ret |-> TRUE ]

\* The items of self.config[s].
Content(c, s) ==
    IF c.config[s].shared THEN c.DEFAULT_CONFIG[s] ELSE c.config[s].dict

\* json.dumps(self.config)
Dump(c) == [ s \in DOMAIN c.config |-> Content(c, s) ]

\* The file: missing, not valid JSON, or JSON text of a dict of sections.
NoFile == [ state |-> "missing", data |-> EmptyDict ]
Corrupt == [ state |-> "corrupt", data |-> EmptyDict ]
Json(d) == [ state |-> "json", data |-> d ]

\* _deep_copy_defaults(): json.loads(json.dumps(DEFAULT_CONFIG)).
_deep_copy_defaults(c) == [ s \in Sections |-> Own(c.DEFAULT_CONFIG[s]) ]

\* save(); ok: the file could be written.
save(c, ok) ==
    IF ok THEN [ c EXCEPT !.config_file = Json(Dump(c)), !.ret = TRUE ]
    ELSE [ c EXCEPT !.ret = FALSE ]

\* _merge_defaults(): merge_dict(DEFAULT_CONFIG, self.config).  The result
\* is base.copy(), a shallow copy: a section the loaded config lacks stays
\* the dict object of DEFAULT_CONFIG; a section of both is a new dict, the
\* copy of the default section updated with the loaded items.
_merge_defaults(c) ==
    [ c EXCEPT !.config =
        [ s \in Sections \cup DOMAIN c.config |->
            IF s \notin DOMAIN c.config THEN Shared
            ELSE IF s \in Sections
            THEN Own(Override(c.DEFAULT_CONFIG[s], Content(c, s)))
            ELSE c.config[s] ] ]

\* load(); ok: the save of a newly created file succeeds.
load(c, ok) ==
    IF c.config_file.state = "json"
    THEN [ _merge_defaults([ c EXCEPT !.config =
                               [ s \in DOMAIN c.config_file.data |->
                                   Own(c.config_file.data[s]) ] ])
             EXCEPT !.ret = TRUE ]
    ELSE IF c.config_file.state = "missing"
    THEN [ save([ c EXCEPT !.config = _deep_copy_defaults(c) ], ok)
             EXCEPT !.ret = TRUE ]
    ELSE [ c EXCEPT !.config = _deep_copy_defaults(c), !.ret = FALSE ]

\* self.config[section] = {} of set(), when the section is missing.
EnsureSection(c, section) ==
    IF section \in DOMAIN c.config THEN c
    ELSE [ c EXCEPT !.config =
             Override(c.config, [ s \in {section} |-> Own(EmptyDict) ]) ]

\* self.config[section][key] = value of set(): an item assignment on the
\* dict object the section holds.
SetItem(c, section, key, value) ==
    IF c.config[section].shared
    THEN [ c EXCEPT !.DEFAULT_CONFIG[section] =
             Override(@, [ k \in {key} |-> value ]) ]
    ELSE [ c EXCEPT !.config[section].dict =
             Override(@, [ k \in {key} |-> value ]) ]

\* set(section, key, value)
set(c, section, key, value) ==
    SetItem(EnsureSection(c, section), section, key, value)

\* reset_to_defaults()
reset_to_defaults(c, ok) ==
    save([ c EXCEPT !.config = _deep_copy_defaults(c) ], ok)

NoConfigCall == [ op |-> "none", ret |-> TRUE ]

SetConfig(c, o) ==
    /\ DEFAULT_CONFIG' = c.DEFAULT_CONFIG
    /\ config' = c.config
    /\ config_file' = c.config_file
    /\ config_call' = [ op |-> o, ret |-> c.ret ]

\* Files a Config can find at its path: none, one that is not JSON, and
\* JSON files (of an earlier version, or edited) with any of the sections,
\* each empty or with the `enabled` item changed.
FileChoices ==
    { NoFile, Corrupt } \cup
    { Json([ s \in S |->
               IF s \in E THEN EmptyDict
               ELSE [ k \in {"enabled"} |-> ~CompiledDefaults[s]["enabled"] ] ]) :
        S \in SUBSET Sections, E \in SUBSET Sections }

\* Another program, or the user, writes the file.
WriteFile ==
    /\ config_file' \in FileChoices
    /\ config_call' = NoConfigCall
    /\ UNCHANGED << DEFAULT_CONFIG, config, pwr, svc, env, app >>

\* A caller calls load().
Load ==
    /\ \E ok \in BOOLEAN : SetConfig(load(ConfigState, ok), "load")
    /\ UNCHANGED << pwr, svc, env, app >>

\* A caller calls set(section, "enabled", value), as _toggle_service does,
\* for a section of the defaults or for another one.
Set ==
    /\ \E section \in Sections \cup { "custom" }, value \in BOOLEAN :
         SetConfig(set(ConfigState, section, "enabled", value), "set")
    /\ UNCHANGED << pwr, svc, env, app >>

\* A caller calls save().
Save ==
    /\ \E ok \in BOOLEAN : SetConfig(save(ConfigState, ok), "save")
    /\ UNCHANGED << pwr, svc, env, app >>

\* A caller calls reset_to_defaults().
ResetToDefaults ==
    /\ \E ok \in BOOLEAN :
         SetConfig(reset_to_defaults(ConfigState, ok), "reset_to_defaults")
    /\ UNCHANGED << pwr, svc, env, app >>

\* The module as imported, and the state Config.__init__ leaves when the
\* file it finds is f: it calls load().
ConfigAfterInit(f) ==
    load([ DEFAULT_CONFIG |-> CompiledDefaults, config |-> EmptyDict,
           config_file |-> f, ret |-> TRUE ], TRUE)

InitConfigWith(f) ==
    /\ DEFAULT_CONFIG = ConfigAfterInit(f).DEFAULT_CONFIG
    /\ config = ConfigAfterInit(f).config
    /\ config_file = ConfigAfterInit(f).config_file
    /\ config_call = NoConfigCall

\* The first run of the application: no file yet.
InitConfig == InitConfigWith(NoFile)

\* State of the detector after GameDetectorService.__init__, and of the
\* window after _setup_ui.
InitDetector ==
    /\ det_enabled = TRUE
    /\ auto_optimize = TRUE
    /\ detected_games = {}
    /\ on_game_detected = FALSE
    /\ on_game_closed = FALSE
    /\ _running = FALSE
    /\ _thread = None
    /\ threads = [ t \in ThreadIds |-> NoThread ]
    /\ pending = << >>
    /\ game_mode_active = FALSE
    /\ script = [ pos |-> 0, events |-> << >> ]
    /\ last = NoStep
    /\ game_mode_btn = "normal"
    /\ workers = NoWorkers
    /\ notified = NeverNotified

\* State of the service after SuspendService.__init__.
InitService ==
    /\ enabled = TRUE
    /\ suspend_explorer = TRUE
    /\ suspend_browsers = TRUE
    /\ suspend_launchers = TRUE
    /\ suspend_background = FALSE
    /\ _suspended_pids = {}
    /\ _explorer_pid = None
    /\ call = NoCall

\* State after the construction of the service and of the detector.
Init ==
    /\ InitService
    /\ _psutil_available \in BOOLEAN
    /\ _ctypes_available \in BOOLEAN
    /\ self_name \in SelfNames
    /\ proc_names = TableProcs
    /\ InitDetector
    /\ InitPower
    /\ InitConfig

\* The packaged application on Windows: ctypes is usable.
AppInit ==
    /\ Init
    /\ _ctypes_available
    /\ self_name = "OpenGameBoost.exe"

AppNext ==
    \/ ConfigureApp
    \/ Run
    \/ ToggleService
    \/ ToggleGameDetection
    \/ \E t \in ThreadIds : Wake(t)
    \/ \E t \in ThreadIds : EnumerationRaises(t)
    \/ \E t \in ThreadIds : Notify(t)
    \/ \E t \in ThreadIds : NotifyRaises(t)
    \/ \E t \in ThreadIds : Store(t)
    \/ HandleGameDetected
    \/ HandleGameClosed

AppSpec == AppInit /\ [][AppNext]_vars

\* The scheduler runs every thread: a loop that is asleep wakes when its
\* sleep is over, and a loop inside _check_games reaches line 132.
AppFairness ==
    \A t \in ThreadIds : WF_vars(Wake(t)) /\ WF_vars(Store(t))

AppLiveSpec == AppInit /\ [][AppNext]_vars /\ AppFairness

\* The application's Game Mode button: the clicks, the two workers and
\* their callbacks, with _set_game_mode and with a caller that assigns the
\* service's `enabled`.
ModeNext ==
    \/ ConfigureApp
    \/ SetEnabled
    \/ SetGameMode
    \/ ToggleGameMode
    \/ ActivationWorker
    \/ DeactivationWorker
    \/ OnGameModeCallback

ModeSpec == AppInit /\ [][ModeNext]_vars

Next ==
    \/ SetEnabled
    \/ ActivateGameMode
    \/ DeactivateGameMode
    \/ RunActivation
    \/ SuspendExplorer
    \/ ResumeExplorer
    \/ ResumeProcess

Spec == Init /\ [][Next]_vars

\* Name lists _get_pids_by_name is called with: the three catalogs its
\* callers pass, and a list whose names are spelt in mixed case.
NameLists ==
    { BROWSER_PROCESSES, LAUNCHER_PROCESSES, BACKGROUND_PROCESSES,
      {EXPLORER_NAME, "Explorer.EXE"} }

\* A call of _get_pids_by_name(process_names): the enumeration yields the
\* processes of seen (none when psutil is missing), and those of gone have
\* vanished or are inaccessible when the loop reads them.
GetPidsByName ==
    /\ \E process_names \in NameLists :
       \E seen \in (IF _psutil_available THEN Enumerations ELSE {{}}) :
       \E gone \in SUBSET seen :
         call' = [ StartCall("get_pids") EXCEPT
                     !.lookup = [ names |-> process_names, seen |-> seen,
                                  gone |-> gone,
                                  pids |-> _get_pids_by_name(process_names,
                                                             seen, gone) ] ]
    /\ UNCHANGED << attrs, _suspended_pids, _explorer_pid, env, others, app >>

\* Directory lookups alone, on machines whose other processes run under
\* any names of ProcTable.
LookupInit ==
    /\ InitService
    /\ _psutil_available \in BOOLEAN
    /\ _ctypes_available = TRUE
    /\ self_name \in SelfNames
    /\ proc_names \in [ Pids -> ToSet(ProcTable) ]
    /\ InitDetector
    /\ InitPower
    /\ InitConfig

LookupNext == GetPidsByName

LookupSpec == LookupInit /\ [][LookupNext]_vars

\* The power service alone, on machines of any chassis and active plan.
PowerInit ==
    /\ InitService
    /\ _psutil_available = TRUE
    /\ _ctypes_available = TRUE
    /\ self_name = "OpenGameBoost.exe"
    /\ proc_names = TableProcs
    /\ InitDetector
    /\ power_enabled = TRUE
    /\ is_desktop \in { "desktop", "laptop", "unknown" }
    /\ original_plan = NoPlan
    /\ active_plan \in Plans
    /\ baseline = NoPlan
    /\ power_call = NoPowerCall
    /\ InitConfig

PowerNext ==
    \/ SetPowerEnabled
    \/ SetHighPerformance
    \/ OptimizePowerSettings
    \/ RestorePowerPlan

PowerSpec == PowerInit /\ [][PowerNext]_vars

\* A Config alone, constructed on any of the files.
ConfigInit ==
    /\ InitService
    /\ _psutil_available = TRUE
    /\ _ctypes_available = TRUE
    /\ self_name = "OpenGameBoost.exe"
    /\ proc_names = TableProcs
    /\ InitDetector
    /\ InitPower
    /\ \E f \in FileChoices : InitConfigWith(f)

ConfigNext ==
    \/ WriteFile
    \/ Load
    \/ Set
    \/ Save
    \/ ResetToDefaults

ConfigSpec == ConfigInit /\ [][ConfigNext]_vars

\* The service on a machine where two desktop shell processes run: the
\* calls that reach the shell step and the calls that resume.
ShellInit ==
    /\ InitService
    /\ _psutil_available = TRUE
    /\ _ctypes_available = TRUE
    /\ self_name = "OpenGameBoost.exe"
    /\ proc_names = TwoShells
    /\ InitDetector
    /\ InitPower
    /\ InitConfig

ShellNext ==
    \/ SetEnabled
    \/ RunActivation
    \/ SuspendExplorer
    \/ ResumeExplorer
    \/ DeactivateGameMode

ShellSpec == ShellInit /\ [][ShellNext]_vars

\* ------------------------------------------------------------------------
\* Properties
\* ------------------------------------------------------------------------
\* The last call was activate_game_mode(), from a library caller or from
\* the application's worker.
Activated == call.op \in {"activate", "run_activation"}
Deactivated == call.op = "deactivate"

\* C1: activate_game_mode() on an enabled service returns a result with the
\* per-category counts and a total, for every combination of toggles and
\* every outcome of the suspend calls; it never raises.
C1_ActivateReturnsCounts ==
    (Activated /\ call.status # "disabled")
        => (call.status = "activated" /\ call.has_total)

\* C2: when activate() follows an activate() that started Idle, no
\* identifier that was already tracked is passed to the suspend primitive
\* again, and no identifier is passed to it twice.
C2_NoDoubleSuspend ==
    (Activated /\ call.prev = "activate_from_idle")
        => /\ \A i \in DOMAIN call.suspendLog : call.suspendLog[i] \notin call.tracked0
           /\ \A i, j \in DOMAIN call.suspendLog :
                 call.suspendLog[i] = call.suspendLog[j] => i = j

\* C3: when deactivate() has returned the tracked set is empty, whatever
\* the outcomes of the resume calls were.
C3_DeactivateEmptiesSet ==
    Deactivated => _suspended_pids = {}

\* C4: if a shell identifier was tracked when deactivate() was called, the
\* shell slot is unset when it has returned, whether the resume of the shell
\* succeeded or failed.
C4_ShellSlotCleared ==
    (Deactivated /\ call.explorer0 # None) => _explorer_pid = None

\* C5: after an activate() that started Idle and a deactivate() in which
\* every resume call succeeded, the tracked set is empty and the shell slot
\* is unset.
C5_RoundTripToIdle ==
    (Deactivated /\ call.prev = "activate_from_idle" /\ call.failed = 0)
        => Idle

\* C5 witness: such a round trip in which the deactivate() resumed at least
\* one process that the activate() had suspended.
C5_Witness ==
    /\ Deactivated
    /\ call.prev = "activate_from_idle"
    /\ call.failed = 0
    /\ call.resumed >= 1
    /\ call.tracked0 # {}
    /\ Idle

\* C6: deactivate() called with nothing tracked and the shell slot unset
\* returns resumed = 0 and failed = 0, makes no resume call and leaves the
\* session Idle.
C6_DeactivateWhenIdle ==
    (Deactivated /\ call.tracked0 = {} /\ call.explorer0 = None)
        => /\ call.status = "deactivated"
           /\ call.resumed = 0
           /\ call.failed = 0
           /\ call.resumeLog = << >>
           /\ Idle

\* C6 witness: deactivate() has returned from a call made with nothing
\* tracked.
C6_Witness ==
    /\ Deactivated
    /\ call.tracked0 = {}
    /\ call.explorer0 = None
    /\ call.status = "deactivated"

\* C7: the tracked set and the shell slot never hold the identifier of the
\* calling process, and no category resolution returns it.
C7_ExcludesSelf ==
    /\ SelfPid \notin _suspended_pids
    /\ _explorer_pid # SelfPid
    /\ SelfPid \notin call.resolved

\* C8: an identifier is in the tracked set only if it was tracked before the
\* call or the call suspended it, and no identifier whose resume the call
\* attempted is still in the set.
C8_TrackedBetweenSuspendAndResume ==
    /\ _suspended_pids \subseteq (call.tracked0 \cup ToSet(call.suspendLog))
    /\ \A p \in ToSet(call.resumeLog) : p \notin _suspended_pids

\* C9: with only the browsers category toggled on and the session Idle,
\* activate() reports as browsers_suspended the number of browser
\* identifiers whose suspend succeeded, and the tracked set is exactly those.
C9_BrowsersOnly ==
    (call.op = "activate" /\ call.status # "disabled"
       /\ call.supplied = {"browsers"}
       /\ call.tracked0 = {} /\ call.explorer0 = None)
        => /\ call.status = "activated"
           /\ "browsers" \in call.categories
           /\ call.browsers_suspended = Cardinality(_suspended_pids)
           /\ _suspended_pids \subseteq ToSet(call.suspendLog)

\* C10: an activate() call processes exactly the categories its caller
\* toggled on: none that was toggled off, and each that was toggled on.
C10_FollowsCallerToggles ==
    (Activated /\ call.status # "disabled")
        => call.categories = call.supplied

\* C18: _resume_process on an identifier that is not tracked returns, and
\* leaves the tracked set and the shell slot as they were, whether the OS
\* resume succeeded or failed.
C18_ResumeUntracked ==
    (call.op = "resume_process" /\ call.resumeLog[1] \notin call.tracked0)
        => /\ call.status = "returned"
           /\ _suspended_pids = call.tracked0
           /\ _explorer_pid = call.explorer0

\* C18 witness: the OS resume of an untracked identifier has succeeded
\* while another process was tracked and the shell slot was set.
C18_Witness ==
    /\ call.op = "resume_process"
    /\ call.resumeLog[1] \notin call.tracked0
    /\ call.resumed = 1
    /\ call.tracked0 # {}
    /\ call.explorer0 # None
    /\ _suspended_pids = call.tracked0

\* The process p is a desktop shell process.
IsShell(p) == NameOf(p) # "" /\ Lower(NameOf(p)) = EXPLORER_NAME

\* C19: in one activate() no suspend attempt on a shell process follows an
\* attempt on a process of another category, and in one deactivate() the
\* first resume attempt is the one on the shell slot.
C19_ShellFirst ==
    /\ Activated
         => \A i, j \in DOMAIN call.suspendLog :
              (IsShell(call.suspendLog[j]) /\ ~IsShell(call.suspendLog[i])) => j < i
    /\ (Deactivated /\ call.explorer0 # None)
         => (call.resumeLog # << >> /\ call.resumeLog[1] = call.explorer0)

\* C19 witness: a deactivate() has resumed the shell first and then another
\* tracked process.
C19_Witness ==
    /\ Deactivated
    /\ call.explorer0 # None
    /\ Len(call.resumeLog) >= 2
    /\ call.resumeLog[1] = call.explorer0
    /\ call.resumeLog[2] # call.explorer0

\* C20: when a call has returned, every handle it opened has been closed:
\* the CloseHandle calls are as many as the handles OpenProcess gave.
C20_HandlesClosed ==
    call.closed = call.opened

\* C20 witness: a deactivate() in which every resume attempt got a handle,
\* one resume succeeded and another failed after the handle was open.
C20_Witness ==
    /\ Deactivated
    /\ call.resumed >= 1
    /\ call.failed >= 1
    /\ call.opened = Len(call.resumeLog)
    /\ call.closed = call.opened

\* C21: in a category batch of activate() the pids passed to
\* _suspend_process are the resolved list, each once and in its order,
\* whatever the earlier attempts returned, and the suspended and failed
\* counts add up to the length of the list.
C21_BatchAttemptsAll ==
    (Activated /\ "background" \in call.categories)
        => /\ call.batch.log = call.batch.pids
           /\ call.batch.suspended + call.batch.failed = Len(call.batch.pids)

\* C21 witness: a batch of two resolved pids in which the first suspend
\* failed and the second succeeded.
C21_Witness ==
    /\ Activated
    /\ "background" \in call.categories
    /\ Len(call.batch.pids) = 2
    /\ call.batch.log = call.batch.pids
    /\ call.batch.failed = 1
    /\ call.batch.suspended = 1
    /\ call.batch.pids[1] \notin _suspended_pids
    /\ call.batch.pids[2] \in _suspended_pids

\* C22: when the enumeration behind a category's list has failed, the list
\* is empty, the call does not raise, and the batch suspends no process.
C22_FailedEnumerationEmpty ==
    (Activated /\ "background" \in call.categories /\ call.batch.enum_failed)
        => /\ call.batch.pids = << >>
           /\ call.batch.log = << >>
           /\ call.status = "activated"

\* The last call was one that makes suspend attempts.
Suspending == Activated \/ call.op = "suspend_explorer"

\* The number of suspend attempts of the last call that returned True.
Successes ==
    call.batch.suspended + (IF call.explorer_suspended THEN 1 ELSE 0)

\* C24: a resume call that fails returns False and leaves the tracked set
\* and the shell slot as they were; the suspend attempts of a call that
\* returned False add nothing to the tracked set (it grows by at most the
\* number of attempts that returned True) and leave the shell slot alone.
C24_FailureNoEffect ==
    /\ (call.op = "resume_process" /\ call.resumed = 0)
          => /\ call.status = "returned"
             /\ call.failed = 1
             /\ _suspended_pids = call.tracked0
             /\ _explorer_pid = call.explorer0
    /\ Suspending
          => /\ call.tracked0 \subseteq _suspended_pids
             /\ Cardinality(_suspended_pids \ call.tracked0) <= Successes
             /\ ~call.explorer_suspended => _explorer_pid = call.explorer0

\* C24 witness: an activate() whose batch got a handle for every pid and
\* whose every suspend failed, with a process tracked from before.
C24_Witness ==
    /\ Activated
    /\ call.batch.log # << >>
    /\ call.batch.suspended = 0
    /\ call.batch.failed = Len(call.batch.log)
    /\ call.opened = Len(call.batch.log)
    /\ call.tracked0 # {}
    /\ _suspended_pids = call.tracked0
    /\ _explorer_pid = call.explorer0

\* The distinct identifiers the session tracked when the last call started:
\* the tracked set and the shell slot.
TrackedAtStart ==
    call.tracked0 \cup (IF call.explorer0 # None THEN {call.explorer0} ELSE {})

\* C25: in one deactivate() each identifier tracked at its start, the shell
\* included, gets exactly one resume attempt, and resumed + failed is the
\* number of those identifiers.
C25_OneResumeEach ==
    Deactivated
        => /\ ToSet(call.resumeLog) = TrackedAtStart
           /\ Len(call.resumeLog) = Cardinality(TrackedAtStart)
           /\ call.resumed + call.failed = Cardinality(TrackedAtStart)

\* The distinct identifiers the session tracks now.
Tracked ==
    _suspended_pids \cup (IF _explorer_pid # None THEN {_explorer_pid} ELSE {})

\* C26: in every state get_status() reports game_mode_active exactly when
\* the session tracks a process, and suspended_count is the number of
\* distinct identifiers tracked, the shell counted once.
C26_StatusCounts ==
    /\ get_status.game_mode_active <=> (Tracked # {})
    /\ get_status.suspended_count = Cardinality(Tracked)

\* C27: a shell step suspends at most one shell process.  Its attempts are
\* the shell processes of the enumeration up to the first success, in
\* order; after a success the shell slot holds that identifier, the later
\* shell processes got no attempt, and nothing else was added to the
\* tracked set; without a success the session is as it was.
C27_OneShell ==
    (Suspending /\ "shell" \in call.categories)
        => /\ call.explorer_suspended
                => /\ call.suspendLog # << >>
                   /\ _explorer_pid = call.suspendLog[Len(call.suspendLog)]
                   /\ ToSet(call.suspendLog)
                        = { p \in call.shell_seen : p <= _explorer_pid }
                   /\ _suspended_pids = call.tracked0 \cup {_explorer_pid}
           /\ ~call.explorer_suspended
                => /\ ToSet(call.suspendLog) = call.shell_seen
                   /\ _suspended_pids = call.tracked0
                   /\ _explorer_pid = call.explorer0
           /\ Len(call.suspendLog) = Cardinality(ToSet(call.suspendLog))

\* C27 witness: two shell processes were enumerated, the suspend of the
\* first succeeded and the second got no attempt.
C27_Witness ==
    /\ call.op = "suspend_explorer"
    /\ Cardinality(call.shell_seen) = 2
    /\ call.explorer_suspended
    /\ call.suspendLog = << 1 >>
    /\ _explorer_pid = 1
    /\ 2 \notin _suspended_pids

\* C28: deactivate_game_mode() makes a resume attempt on every identifier
\* tracked at its start and returns its counts, with the service enabled
\* and with the service disabled.
C28_DeactivateIgnoresEnabled ==
    Deactivated
        => /\ call.status = "deactivated"
           /\ TrackedAtStart \subseteq ToSet(call.resumeLog)

\* C28 witness: the service was disabled after an activation that had
\* suspended a process, and the deactivate() called then has resumed it.
C28_Witness ==
    /\ Deactivated
    /\ ~call.enabled0
    /\ call.prev = "activate_from_idle"
    /\ call.tracked0 # {}
    /\ call.resumed = Cardinality(call.tracked0)
    /\ Idle

\* C36: _get_pids_by_name returns, once each, exactly the pids of the
\* enumerated processes that could be read and whose name equals, ignoring
\* case, a name of the list; a process that could not be read does not end
\* the loop.
C36_ExactPids ==
    call.op = "get_pids"
      => /\ ToSet(call.lookup.pids)
              = { p \in call.lookup.seen \ call.lookup.gone :
                    \E n \in call.lookup.names : Lower(n) = Lower(NameOf(p)) }
         /\ Len(call.lookup.pids) = Cardinality(ToSet(call.lookup.pids))

\* C36 witness: a lookup that returned two pids, of processes whose names
\* differ in case, after it had skipped a process that it could not read
\* and that bears a name of the list.
C36_Witness ==
    /\ call.op = "get_pids"
    /\ Len(call.lookup.pids) = 2
    /\ \E p, q \in ToSet(call.lookup.pids) : NameOf(p) # NameOf(q)
    /\ \E g \in call.lookup.gone :
         /\ \A p \in ToSet(call.lookup.pids) : g < p
         /\ \E n \in call.lookup.names : Lower(n) = Lower(NameOf(g))

\* C37: a restore that returns True makes active the plan that was active
\* before the first optimizing call since the restore before it; and a
\* saved original plan changes only when such a restore clears it.
C37_RestoresFirstPlan ==
    /\ []( (power_call.op = "restore_power_plan" /\ power_call.ret
              /\ power_call.baseline # NoPlan)
            => active_plan = power_call.baseline )
    /\ [][ original_plan # NoPlan
             => \/ original_plan' = original_plan
                \/ /\ original_plan' = NoPlan
                   /\ power_call'.op = "restore_power_plan"
                   /\ power_call'.ret ]_vars

\* C38: the dict DEFAULT_CONFIG holds the compiled-in values in every
\* state, and when reset_to_defaults() has returned the configuration
\* holds them too.
C38_DefaultsImmutable ==
    /\ DEFAULT_CONFIG = CompiledDefaults
    /\ config_call.op = "reset_to_defaults"
         => Dump(ConfigState) = CompiledDefaults

\* ------------------------------------------------------------------------
\* Properties of the detector and of the handlers
\* ------------------------------------------------------------------------
\* The number of times the notification e occurs in the sequence s.
Count(s, e) == Cardinality({ i \in DOMAIN s : s[i] = e })

\* The step is the tick of thread t: lines 120-130 of _check_games.
TickStep(t) == threads[t].pc = "sleep" /\ threads'[t].pc = "store"

\* The notifications the step has made, as the handler calls it queued.
Emitted == SubSeq(pending', Len(pending) + 1, Len(pending'))

\* The step is the main thread running the queued handler of a
\* notification of kind k.
HandlerStep(k) ==
    /\ pending # << >>
    /\ Head(pending).kind = k
    /\ pending' = Tail(pending)

\* C23: at most one Game-Mode worker, activation or deactivation, is in
\* flight at any time; while one is, the button is disabled.
C23_OneWorker ==
    /\ InFlight(workers) <= 1
    /\ InFlight(workers) = 1 => game_mode_btn = "disabled"

\* C23 witness: a worker is in flight that was started after an earlier
\* activation worker had ended on the error path.
C23_Witness ==
    /\ InFlight(workers) = 1
    /\ game_mode_btn = "disabled"
    /\ pending = << >>
    /\ call.op = "run_activation"
    /\ call.status = "raised"

\* C29: while the detector is Running the loop that start() created is
\* alive: no tick ends it, a tick in which a callback raises included.
C29_LoopSurvives ==
    _running => (_thread # None /\ threads[_thread].pc # "dead")

\* C30: while the detector is Stopped no loop begins a tick (a loop that
\* was inside a tick when stop() was called finishes that one), and unless
\* a start() follows every loop ends.
C30_LoopEndsAfterStop ==
    /\ [][ \A t \in ThreadIds :
             (threads[t].pc = "sleep" /\ threads'[t].pc = "store") => _running ]_vars
    /\ [](~_running => <>(_running \/ Alive(threads) = {}))

\* C30 witness: the detector is Stopped after it had polled, and the loop
\* that outlived the join of stop() has ended.
C30_Witness ==
    /\ ~_running
    /\ _thread # None
    /\ Alive(threads) = {}
    /\ detected_games # {}
    /\ last = NoStep

\* C31: for each game the callbacks alternate, starting with detected: a
\* detected callback is made for a game only if the last callback for it
\* was not a detected one, and a closed callback only if the last callback
\* for it was a detected one.
C31_Alternation ==
    [][ \A i \in DOMAIN Emitted :
          Emitted[i].game \in Games
            => IF Emitted[i].kind = "detected"
               THEN notified[Emitted[i].game] # "detected"
               ELSE notified[Emitted[i].game] = "detected"
      ]_vars

\* get_running_games() and is_game_running(game_name), lines 166-172.
get_running_games == detected_games
is_game_running(game_name) == game_name \in detected_games

\* C32: when a callback is made, and when the handler it queued runs, the
\* detector reports the new set: the game of a closed notification is not
\* reported as running, the game of a detected notification is.
C32_ReportsNewSet ==
    [][ /\ \A i \in DOMAIN Emitted :
             Emitted[i].game \in Games
               => ((Emitted[i].kind = "detected")
                      <=> (Emitted[i].game \in get_running_games'))
        /\ (HandlerStep("closed") \/ HandlerStep("detected"))
               => ((Head(pending).kind = "detected")
                      <=> is_game_running(Head(pending).game))
      ]_vars

\* C33: the step that completes a tick replaces the stored set by the set
\* of the catalog games with a process, among those the tick enumerated,
\* whose name is one of the game's executable names ignoring case; no
\* enumerated process counts for two games.
C33_StoredSetExact ==
    [][ \A t \in ThreadIds :
          (threads[t].pc = "store" /\ threads'[t].pc = "sleep")
            => /\ detected_games'
                    = { g \in Games :
                          \E n \in threads[t].seen :
                            /\ n # ""
                            /\ \E i \in DOMAIN SUPPORTED_GAMES[g] :
                                  Lower(SUPPORTED_GAMES[g][i]) = Lower(n) }
               /\ \A n \in threads[t].seen :
                    Cardinality({ g \in Games :
                                    \E i \in DOMAIN SUPPORTED_GAMES[g] :
                                      Lower(SUPPORTED_GAMES[g][i]) = Lower(n) }) <= 1
      ]_vars

\* C33 witness: completed ticks have replaced a stored set that held
\* "Call of Duty" (its closed callback was made) by the set of the one game
\* that runs now.
C33_Witness ==
    /\ detected_games = {"Apex Legends"}
    /\ notified["Call of Duty"] = "closed"
    /\ notified["Apex Legends"] = "detected"
    /\ Checking(threads) = {}
    /\ pending = << >>

\* C34: while the detector is Running with enabled false no loop begins a
\* tick and no callback is made, and the stored set changes only by the
\* store of a tick that had begun before; the tick that follows reads the
\* stored set as its previous set.
C34_DisabledIdle ==
    [][ /\ (_running /\ ~det_enabled)
             => /\ \A t \in ThreadIds : ~TickStep(t)
                /\ notified' = notified
                /\ Checking(threads) = {} => detected_games' = detected_games
        /\ \A t \in ThreadIds :
             (TickStep(t) /\ on_game_closed)
               => { Emitted[i].game : i \in { k \in DOMAIN Emitted :
                                                Emitted[k].kind = "closed" } }
                     = detected_games \ threads'[t].cur
      ]_vars

\* C34 witness: the detector is Running with enabled false, its loop is
\* asleep between two poll intervals, and the set stored by an earlier
\* tick is still there.
C34_Witness ==
    /\ _running
    /\ ~det_enabled
    /\ _thread # None
    /\ threads[_thread].pc = "sleep"
    /\ Checking(threads) = {}
    /\ detected_games = {"Call of Duty"}
    /\ notified["Call of Duty"] = "detected"
    /\ pending = << >>
    /\ last = NoStep

\* C35: a tick whose enumeration raises makes no callback and leaves the
\* stored set as it was, and every loop that was asleep, the one of the
\* tick included, is asleep for its next tick.
C35_EnumerationFailure ==
    [][ last' = EnumFailed
          => /\ pending' = pending
             /\ notified' = notified
             /\ detected_games' = detected_games
             /\ _running'
             /\ \A t \in ThreadIds :
                   threads[t].pc = "sleep" => threads'[t].pc = "sleep"
      ]_vars

\* C35 witness: the enumeration of a tick has just raised while a game was
\* stored as detected; the set is still stored and the loop is asleep.
C35_Witness ==
    /\ last = EnumFailed
    /\ _running
    /\ _thread # None
    /\ threads[_thread].pc = "sleep"
    /\ detected_games = {"Call of Duty"}
    /\ notified["Call of Duty"] = "detected"
    /\ pending = << >>

\* C11: from an empty previous set and with both callbacks registered, the
\* ticks that compute {A}, {A,B}, {B}, {} in that order emit detected(A),
\* detected(B), closed(A), closed(B), one per tick and nothing else.
C11_ScriptedEvents ==
    script.pos >= 1 => script.events = << ScriptedEvents[script.pos] >>

\* C12: in every tick, whatever auto_optimize is, each game in the new set
\* and not in the previous one gets exactly one detected notification, and
\* every other game gets none.
C12_DetectedNotified ==
    [][ \A t \in ThreadIds :
          (TickStep(t) /\ on_game_detected)
              => \A g \in Games :
                   Count(Emitted, Event("detected", g))
                       = (IF g \in threads'[t].cur \ detected_games THEN 1 ELSE 0)
      ]_vars

\* C13: in every tick each game in the previous set and not in the new one
\* gets exactly one closed notification, and every other game gets none.
C13_ClosedNotified ==
    [][ \A t \in ThreadIds :
          (TickStep(t) /\ on_game_closed)
              => \A g \in Games :
                   Count(Emitted, Event("closed", g))
                       = (IF g \in detected_games \ threads'[t].cur THEN 1 ELSE 0)
      ]_vars

\* C13 witness: with auto_optimize off, a tick has made the closed callback
\* for the one game that closed while the other stayed (the new set is not
\* stored yet).
C13_Witness ==
    /\ ~auto_optimize
    /\ on_game_closed
    /\ detected_games = Games
    /\ \E t \in ThreadIds :
         threads[t].pc = "store" /\ threads[t].cur = {"Apex Legends"}
    /\ pending = << Event("closed", "Call of Duty") >>

\* C14: stop() returns from every detector state with _running cleared,
\* and its wait for the loop takes at most the join timeout.
C14_StopBounded ==
    last.op = "stop" => (~_running /\ last.waited <= JoinTimeout)

\* C14 witness: stop() has returned after the full join timeout while the
\* loop it joined has not ended.
C14_Witness ==
    /\ last.op = "stop"
    /\ last.waited = JoinTimeout
    /\ ~_running
    /\ _thread \in Alive(threads)

\* C15: at most one detection loop is polling at any time.
C15_OneLoopPolling ==
    Cardinality(Checking(threads)) <= 1

\* C16: when the handler of a detected notification has run with
\* auto_optimize set, it has called activate on the suspend service.
C16_DetectedActivates ==
    [][ (HandlerStep("detected") /\ auto_optimize)
          => (call' # call /\ call'.op \in {"activate", "run_activation"})
      ]_vars

\* C17: when the handler of a closed notification has run with no detected
\* game left, it has called deactivate on the suspend service.
C17_ClosedDeactivates ==
    [][ (HandlerStep("closed") /\ detected_games = {})
          => (call' # call /\ call'.op = "deactivate")
      ]_vars

====
